---- MODULE Spec2Model ----
(***************************************************************************)
(* A model of the regret-based scheduling engine of the emergency unit     *)
(* server (src/server/regret_engine.py) and of the request handlers that   *)
(* drive it (src/server/app.py).                                           *)
(*                                                                         *)
(* Number representation.  The code computes with Python floats.  The      *)
(* model keeps every quantity exact in a fixed unit:                       *)
(*   - health, healing, rewards and penalties in tenths of a point         *)
(*     (30.0 health is 300; a healing of 4.8 is 48);                       *)
(*   - simulated time in thousandths of a minute (one tick is 1000); a     *)
(*     travel time, which is irrational in general, is rounded up to the   *)
(*     next thousandth, which leaves every comparison with the whole-      *)
(*     minute clock unchanged;                                             *)
(*   - the learner's regrets, probabilities and values as exact rationals  *)
(*     <<numerator, denominator>> in lowest terms.                         *)
(*                                                                         *)
(* Object identity.  Patient and GameState are mutable Python objects.     *)
(* The model keeps them in a heap (mem.pat, mem.gs) indexed by references, *)
(* so that sharing between a scenario and its clone is something a state   *)
(* of the model can show.                                                  *)
(***************************************************************************)
EXTENDS Integers, Sequences, FiniteSets, TLC

VARIABLES
    mem,              \* the heap: [pat: ref -> Patient, gs: ref -> GameState]
    current_state,    \* analyzer.current_state: a GameState reference or NoneRef
    patient_counter,  \* analyzer.patient_counter
    cfr,              \* analyzer.cfr: the CFRRegretMinimizer's fields
    plan,             \* the position and locals of an analyze_and_plan call
    sim,              \* the position and locals of a simulate_action_sequence call
    calls,            \* the analyze_and_plan calls of concurrently served requests
    ret               \* what the last completed operation returned

vars == <<mem, current_state, patient_counter, cfr, plan, sim, calls, ret>>

-----------------------------------------------------------------------------
(* Bounds of the model *)

\* largest roster the scenarios of the model hold
MaxPatients == 2
\* largest value of the patient id counter
MaxId == 2

-----------------------------------------------------------------------------
(* Game constants *)

DOCTOR_HEALING_POWER == 60
NURSE_HEALING_POWER == 40
\* 1.2, in tenths
COOPERATIVE_BONUS == 12

\* in percent
ROOM_EFFECTIVENESS == [TRIAGE |-> 10, TB |-> 30, LAB |-> 15, ICU |-> 50]

\* in minutes
ROOM_TREATMENT_TIME == [TRIAGE |-> 5, TB |-> 15, LAB |-> 20, ICU |-> 45]

\* per minute, in tenths of a health point
WAITING_PENALTY == [Critical |-> -30, Moderate |-> -20, Minor |-> -10]

\* in tenths
COMPLETION_REWARD == [Critical |-> 1000, Moderate |-> 600, Minor |-> 300]

\* in tenths
INITIAL_HEALTH == [Critical |-> 300, Moderate |-> 500, Minor |-> 700]

PATHWAYS == [Critical |-> <<"TRIAGE", "TB", "ICU">>,
             Moderate |-> <<"TRIAGE", "TB", "LAB", "TB">>,
             Minor    |-> <<"TRIAGE", "TB">>]

ROOM_POSITIONS == [ENT    |-> <<0, 0>>,
                   TRIAGE |-> <<2, 0>>,
                   TB     |-> <<5, 3>>,
                   LAB    |-> <<8, -2>>,
                   ICU    |-> <<10, 5>>]

PatientTypes == {"Critical", "Moderate", "Minor"}

\* Patient.__post_init__ / spawn_patient: the default deadlines, in minutes
DEADLINES == [Critical |-> 25, Moderate |-> 45, Minor |-> 30]

\* Patient.urgency: type_weight
TYPE_WEIGHT == [Critical |-> 3, Moderate |-> 2, Minor |-> 1]

\* GameSimulator.__init__: speeds, in tenths of a distance unit per minute
NURSE_SPEED == 40
DOCTOR_SPEED == 25

\* simulate_action_sequence: simulation_time and time_step, in thousandths
SIMULATION_TIME == 100000
TIME_STEP == 1000

\* the death penalty of simulate_action_sequence, in tenths
DEATH_PENALTY == 500

-----------------------------------------------------------------------------
(* Arithmetic helpers *)

Max(a, b) == IF a >= b THEN a ELSE b
Min(a, b) == IF a <= b THEN a ELSE b
Abs(a) == IF a >= 0 THEN a ELSE -a

\* k is the least natural number with k*k >= n
IsCeilSqrt(k, n) == k * k >= n /\ (k = 0 \/ (k - 1) * (k - 1) < n)

\* the least k with k*k >= n, for n up to 46336 squared: the least multiple
\* of 256 whose square reaches n, then k among the 256 numbers up to it
CeilSqrt(n) ==
    LET hi == 256 * (CHOOSE c \in 0..181 :
                        /\ (256 * c) * (256 * c) >= n
                        /\ c = 0 \/ (256 * (c - 1)) * (256 * (c - 1)) < n)
    IN CHOOSE k \in Max(0, hi - 255)..hi : IsCeilSqrt(k, n)

\* room_distance(r1, r2) squared; rooms without a position count as (0, 0)
room_distance2(r1, r2) ==
    LET p1 == IF r1 \in DOMAIN ROOM_POSITIONS THEN ROOM_POSITIONS[r1] ELSE <<0, 0>>
        p2 == IF r2 \in DOMAIN ROOM_POSITIONS THEN ROOM_POSITIONS[r2] ELSE <<0, 0>>
    IN (p1[1] - p2[1]) * (p1[1] - p2[1]) + (p1[2] - p2[2]) * (p1[2] - p2[2])

\* room_distance(current_pos, room) / speed, in thousandths of a minute,
\* rounded up:  1000 * sqrt(d2) * 10 / speed10  =  sqrt(d2 * (10000/speed10)^2)
travel_time(agent, from, to) ==
    LET speed == IF agent = "nurse" THEN NURSE_SPEED ELSE DOCTOR_SPEED
        k == 10000 \div speed
    IN CeilSqrt(room_distance2(from, to) * k * k)

-----------------------------------------------------------------------------
(* The heap *)

NoneRef == 0

EmptyMem == [pat |-> <<>>, gs |-> <<>>]

\* the smallest reference not in use
NextFree(dom) ==
    CHOOSE r \in 1..(Cardinality(dom) + 1) :
        r \notin dom /\ \A q \in 1..(r - 1) : q \in dom

\* the element of a set of one element.  Only({F(x) : x \in {e}}) is F(e),
\* with e computed before F is applied to it
Only(S) == CHOOSE x \in S : TRUE

\* the range of a sequence
Range(s) == {s[i] : i \in 1..Len(s)}

Restrict(f, S) == [x \in (DOMAIN f) \cap S |-> f[x]]

\* what is reachable from the references a set of roots holds:
\* the garbage collector's view of the heap
Reachable(M, roots) ==
    LET gsr == roots \cap DOMAIN M.gs
        patr == UNION {Range(M.gs[g].patients) : g \in gsr}
    IN [pat |-> Restrict(M.pat, patr), gs |-> Restrict(M.gs, gsr)]

-----------------------------------------------------------------------------
(* Patient and GameState *)

\* Patient(...) with __post_init__: a zero deadline becomes the type's default,
\* doctor_required becomes true for a Critical patient
Patient(id, ptype, health, pathway, current_step, deadline, doctor_required) ==
    [id |-> id, ptype |-> ptype, health |-> health, pathway |-> pathway,
     current_step |-> current_step, arrival_time |-> 0, waiting_time |-> 0,
     being_treated_by |-> <<>>,
     deadline |-> IF deadline = 0
                  THEN (IF ptype \in DOMAIN DEADLINES THEN DEADLINES[ptype] ELSE 30)
                  ELSE deadline,
     doctor_required |-> IF ~doctor_required THEN ptype = "Critical"
                         ELSE doctor_required]

is_complete(p) == p.current_step >= Len(p.pathway)

next_room(p) == IF ~is_complete(p) THEN p.pathway[p.current_step + 1] ELSE "None"

\* Patient.urgency, times 1000: type_weight * (100 - health) / 100
urgency(p) == TYPE_WEIGHT[p.ptype] * (1000 - p.health)

\* Patient.clone: a new object with copies of the two lists
PatientClone(p) ==
    [id |-> p.id, ptype |-> p.ptype, health |-> p.health,
     pathway |-> p.pathway, current_step |-> p.current_step,
     arrival_time |-> p.arrival_time, waiting_time |-> p.waiting_time,
     being_treated_by |-> p.being_treated_by,
     deadline |-> p.deadline, doctor_required |-> p.doctor_required]

\* GameState(): the field defaults
GameState ==
    [patients |-> <<>>, nurse_pos |-> "ENT", doctor_pos |-> "ENT",
     nurse_busy_until |-> 0, doctor_busy_until |-> 0, current_time |-> 0,
     total_reward |-> 0, total_penalty |-> 0, completed_patients |-> 0]

RECURSIVE ClonePatients(_, _, _)
\* [p.clone() for p in self.patients]: one new Patient object for each
ClonePatients(pat, refs, i) ==
    IF i > Len(refs) THEN [pat |-> pat, refs |-> <<>>]
    ELSE LET r == NextFree(DOMAIN pat)
             rest == ClonePatients(pat @@ (r :> PatientClone(pat[refs[i]])), refs, i + 1)
         IN [pat |-> rest.pat, refs |-> <<r>> \o rest.refs]

\* a clone that builds a new GameState over the same Patient objects
GameStateCloneShallow(M, g) ==
    LET g2 == NextFree(DOMAIN M.gs)
    IN [mem |-> [pat |-> M.pat, gs |-> M.gs @@ (g2 :> M.gs[g])], ref |-> g2]

\* GameState.clone: a new GameState whose patients are clones
GameStateClone(M, g) ==
    LET s == M.gs[g]
        cp == ClonePatients(M.pat, s.patients, 1)
        g2 == NextFree(DOMAIN M.gs)
        s2 == [patients |-> cp.refs,
               nurse_pos |-> s.nurse_pos, doctor_pos |-> s.doctor_pos,
               nurse_busy_until |-> s.nurse_busy_until,
               doctor_busy_until |-> s.doctor_busy_until,
               current_time |-> s.current_time, total_reward |-> s.total_reward,
               total_penalty |-> s.total_penalty,
               completed_patients |-> s.completed_patients]
    IN [mem |-> [pat |-> cp.pat, gs |-> M.gs @@ (g2 :> s2)], ref |-> g2]

-----------------------------------------------------------------------------
(* Actions of the agents.  An action string is the sequence of its parts   *)
(* between underscores, with TREAT_PATIENT kept as one part; the id suffix  *)
(* is the sequence of its decimal digits.                                   *)

RECURSIVE DecimalDigits(_)
\* str(n) for n >= 0: the decimal digits, most significant first
DecimalDigits(n) ==
    IF n < 10 THEN <<n>> ELSE Append(DecimalDigits(n \div 10), n % 10)

RECURSIVE ParseInt(_)
\* int(s) for a string of decimal digits
ParseInt(ds) ==
    IF ds = <<>> THEN 0 ELSE ParseInt(SubSeq(ds, 1, Len(ds) - 1)) * 10 + ds[Len(ds)]

\* f'TREAT_PATIENT_{id}'
Treat(id) == <<"TREAT_PATIENT", DecimalDigits(id)>>

\* 'WAIT'
Wait == <<"WAIT">>

\* n copies of x
Repeat(x, n) == [i \in 1..n |-> x]

-----------------------------------------------------------------------------
(* GameSimulator *)

RECURSIVE WaitingLoop(_, _, _, _)
\* the loop of apply_waiting_penalties over state.patients, from index i on
WaitingLoop(pat, refs, i, time_delta) ==
    IF i > Len(refs) THEN [pat |-> pat, penalty |-> 0]
    ELSE LET r == refs[i]
             p == pat[r]
         IN IF p.being_treated_by = <<>>
            THEN LET rate == WAITING_PENALTY[p.ptype]
                     p2 == [p EXCEPT !.waiting_time = @ + time_delta,
                                     !.health = Max(0, @ + rate * time_delta)]
                     rest == WaitingLoop([pat EXCEPT ![r] = p2], refs, i + 1, time_delta)
                 IN [pat |-> rest.pat, penalty |-> rate * time_delta + rest.penalty]
            ELSE WaitingLoop(pat, refs, i + 1, time_delta)

\* apply_waiting_penalties(state, time_delta), time_delta in minutes
apply_waiting_penalties(M, g, time_delta) ==
    LET w == WaitingLoop(M.pat, M.gs[g].patients, 1, time_delta)
    IN [mem |-> [pat |-> w.pat,
                 gs |-> [M.gs EXCEPT ![g].total_penalty = @ + w.penalty]],
        penalty |-> w.penalty]

\* the healing of one treatment, in tenths:
\* base_power [* COOPERATIVE_BONUS] * effectiveness * (duration / nominal)
Healing(agent, room, duration, cooperative) ==
    LET base_power == IF agent = "doctor" THEN DOCTOR_HEALING_POWER
                      ELSE NURSE_HEALING_POWER
        effectiveness == IF room \in DOMAIN ROOM_EFFECTIVENESS
                         THEN ROOM_EFFECTIVENESS[room] ELSE 20
        nominal == IF room \in DOMAIN ROOM_TREATMENT_TIME
                   THEN ROOM_TREATMENT_TIME[room] ELSE 10
        bonus == IF cooperative THEN COOPERATIVE_BONUS ELSE 10
    IN (base_power * bonus * effectiveness * duration) \div (100 * nominal)

\* treat_patient(state, patient, agent, duration, cooperative)
treat_patient(M, g, r, agent, duration, cooperative) ==
    LET p == M.pat[r]
        room == next_room(p)
    IN IF room = "None" THEN [mem |-> M, reward |-> 0]
       ELSE LET healing == Healing(agent, room, duration, cooperative)
                p2 == [p EXCEPT !.health = Min(1000, @ + healing),
                                !.current_step = @ + 1]
                done == is_complete(p2)
                reward == healing + (IF done THEN COMPLETION_REWARD[p.ptype] ELSE 0)
                s == M.gs[g]
                s2 == [s EXCEPT !.completed_patients = IF done THEN @ + 1 ELSE @,
                                !.total_reward = @ + reward]
            IN [mem |-> [pat |-> [M.pat EXCEPT ![r] = p2],
                         gs |-> [M.gs EXCEPT ![g] = s2]],
                reward |-> reward]

\* list.remove(x): the list without the first element equal to x
\* a detach that leaves the agent in the list
ListRemoveKept(s, x) == s

RECURSIVE ListRemove(_, _)
ListRemove(s, x) ==
    IF s = <<>> THEN <<>>
    ELSE IF Head(s) = x THEN Tail(s)
    ELSE <<Head(s)>> \o ListRemove(Tail(s), x)

\* state.patients.remove(p): Patient is a dataclass, so the element removed is
\* the first one whose fields equal p's
RECURSIVE PatientsRemove(_, _, _)
PatientsRemove(pat, refs, r) ==
    IF refs = <<>> THEN <<>>
    ELSE IF pat[Head(refs)] = pat[r] THEN Tail(refs)
    ELSE <<Head(refs)>> \o PatientsRemove(pat, Tail(refs), r)

\* [x for x in s if Test(x)]
SelectRefs(refs, Test(_)) == SelectSeq(refs, Test)

\* _execute_agent_action(state, agent, action, metrics)
execute_agent_action(M, g, agent, action, metrics) ==
    LET s == M.gs[g]
        none == [mem |-> M, metrics |-> metrics, reward |-> 0]
    IN IF action[1] = "TREAT_PATIENT"
       THEN LET patient_idx == ParseInt(action[Len(action)]) - 1
            IN IF patient_idx < Len(s.patients)
               THEN LET r == s.patients[patient_idx + 1]
                        patient == M.pat[r]
                        room == next_room(patient)
                    IN IF room # "None"
                       THEN LET current_pos == IF agent = "nurse" THEN s.nurse_pos
                                               ELSE s.doctor_pos
                                travel == travel_time(agent, current_pos, room)
                                treatment_time == IF room \in DOMAIN ROOM_TREATMENT_TIME
                                                  THEN ROOM_TREATMENT_TIME[room] ELSE 10
                                cooperative == Len(patient.being_treated_by) > 0
                                metrics2 == IF cooperative
                                            THEN [metrics EXCEPT !.cooperation_events = @ + 1]
                                            ELSE metrics
                                busy_until == s.current_time + travel + treatment_time * 1000
                                s2 == IF agent = "nurse"
                                      THEN [s EXCEPT !.nurse_busy_until = busy_until,
                                                     !.nurse_pos = room]
                                      ELSE [s EXCEPT !.doctor_busy_until = busy_until,
                                                     !.doctor_pos = room]
                                M2 == [pat |-> [M.pat EXCEPT ![r].being_treated_by =
                                                    Append(@, agent)],
                                       gs |-> [M.gs EXCEPT ![g] = s2]]
                                t == treat_patient(M2, g, r, agent, treatment_time, cooperative)
                                M3 == [t.mem EXCEPT !.pat[r].being_treated_by =
                                                    ListRemove(@, agent)]
                            IN [mem |-> M3, metrics |-> metrics2, reward |-> t.reward]
                       ELSE none
               ELSE none
       ELSE IF action = Wait
       THEN [mem |-> [M EXCEPT !.gs[g] =
                         IF agent = "nurse"
                         THEN [s EXCEPT !.nurse_busy_until = s.current_time + 1000]
                         ELSE [s EXCEPT !.doctor_busy_until = s.current_time + 1000]],
             metrics |-> [metrics EXCEPT !.idle_time = @ + 1],
             reward |-> 0]
       ELSE none

\* the metrics record simulate_action_sequence starts from
NewMetrics ==
    [total_healing |-> 0, total_penalty |-> 0, patients_completed |-> 0,
     cooperation_events |-> 0, idle_time |-> 0]

\* the locals of a simulate_action_sequence call that has not started
IdleSim ==
    [pc |-> "idle", initial_state |-> NoneRef, state |-> NoneRef,
     metrics |-> NewMetrics, nurse_actions |-> <<>>, doctor_actions |-> <<>>,
     nurse_action_idx |-> 0, doctor_action_idx |-> 0]

\* simulate_action_sequence, up to the loop: clone the state, zero the metrics
SimBegin(M, g, nurse_actions, doctor_actions) ==
    LET c == GameStateClone(M, g)
    IN [mem |-> c.mem,
        fr |-> [pc |-> "loop", initial_state |-> g, state |-> c.ref,
                metrics |-> NewMetrics,
                nurse_actions |-> nurse_actions, doctor_actions |-> doctor_actions,
                nurse_action_idx |-> 0, doctor_action_idx |-> 0]]

\* the loop condition: state.current_time < simulation_time and state.patients
SimLoopCond(M, fr) ==
    /\ M.gs[fr.state].current_time < SIMULATION_TIME
    /\ M.gs[fr.state].patients # <<>>

\* tick, step 1: apply the waiting penalties
SimPenalty(M, fr) ==
    LET a == apply_waiting_penalties(M, fr.state, TIME_STEP \div 1000)
    IN [mem |-> a.mem,
        fr |-> [fr EXCEPT !.metrics.total_penalty = @ + Abs(a.penalty), !.pc = "dead"]]

RECURSIVE DeadLoop(_, _, _, _)
\* for p in dead: the death penalty, and state.patients.remove(p)
DeadLoop(M, g, dead, metrics) ==
    IF dead = <<>> THEN [mem |-> M, metrics |-> metrics]
    ELSE LET s == M.gs[g]
             s2 == [s EXCEPT !.total_penalty = @ - DEATH_PENALTY,
                             !.patients = PatientsRemove(M.pat, @, Head(dead))]
         IN DeadLoop([M EXCEPT !.gs[g] = s2], g, Tail(dead),
                     [metrics EXCEPT !.total_penalty = @ + DEATH_PENALTY])

\* a death check that leaves the dead in the roster
SimDeadSpared(M, fr) == [mem |-> M, fr |-> [fr EXCEPT !.pc = "nurse"]]

\* tick, step 2: remove the dead patients (health <= 0)
SimDead(M, fr) ==
    LET IsDead(r) == M.pat[r].health <= 0
        dead == SelectSeq(M.gs[fr.state].patients, IsDead)
        d == DeadLoop(M, fr.state, dead, fr.metrics)
    IN [mem |-> d.mem, fr |-> [fr EXCEPT !.metrics = d.metrics, !.pc = "nurse"]]

\* tick, step 3: the nurse's action, if the nurse is free and has one left
SimNurse(M, fr) ==
    LET s == M.gs[fr.state]
    IN IF s.current_time >= s.nurse_busy_until
          /\ fr.nurse_action_idx < Len(fr.nurse_actions)
       THEN LET action == fr.nurse_actions[fr.nurse_action_idx + 1]
                e == execute_agent_action(M, fr.state, "nurse", action, fr.metrics)
            IN [mem |-> e.mem,
                fr |-> [fr EXCEPT !.metrics = [e.metrics EXCEPT
                                                  !.total_healing = @ + e.reward],
                                  !.nurse_action_idx = @ + 1, !.pc = "doctor"]]
       ELSE [mem |-> M, fr |-> [fr EXCEPT !.pc = "doctor"]]

\* tick, step 4: the doctor's action, if the doctor is free and has one left
SimDoctor(M, fr) ==
    LET s == M.gs[fr.state]
    IN IF s.current_time >= s.doctor_busy_until
          /\ fr.doctor_action_idx < Len(fr.doctor_actions)
       THEN LET action == fr.doctor_actions[fr.doctor_action_idx + 1]
                e == execute_agent_action(M, fr.state, "doctor", action, fr.metrics)
            IN [mem |-> e.mem,
                fr |-> [fr EXCEPT !.metrics = [e.metrics EXCEPT
                                                  !.total_healing = @ + e.reward],
                                  !.doctor_action_idx = @ + 1, !.pc = "completed"]]
       ELSE [mem |-> M, fr |-> [fr EXCEPT !.pc = "completed"]]

\* a removal of the completed patients that does not count them
CompletedLoopUncounted(M, g, completed, metrics) ==
    LET Open(r) == ~is_complete(M.pat[r])
    IN [mem |-> [M EXCEPT !.gs[g].patients = SelectSeq(@, Open)],
        metrics |-> metrics]

RECURSIVE CompletedLoop(_, _, _, _)
\* for p in completed: count it, and state.patients.remove(p)
CompletedLoop(M, g, completed, metrics) ==
    IF completed = <<>> THEN [mem |-> M, metrics |-> metrics]
    ELSE CompletedLoop(
             [M EXCEPT !.gs[g].patients = PatientsRemove(M.pat, @, Head(completed))],
             g, Tail(completed),
             [metrics EXCEPT !.patients_completed = @ + 1])

\* a completion step that leaves the clock where it is
SimCompletedClockStopped(M, fr) ==
    LET IsDone(r) == is_complete(M.pat[r])
        completed == SelectSeq(M.gs[fr.state].patients, IsDone)
        c == CompletedLoop(M, fr.state, completed, fr.metrics)
    IN [mem |-> c.mem, fr |-> [fr EXCEPT !.metrics = c.metrics, !.pc = "loop"]]

\* tick, step 5: remove the completed patients, then advance the clock
SimCompleted(M, fr) ==
    LET IsDone(r) == is_complete(M.pat[r])
        completed == SelectSeq(M.gs[fr.state].patients, IsDone)
        c == CompletedLoop(M, fr.state, completed, fr.metrics)
    IN [mem |-> [c.mem EXCEPT !.gs[fr.state].current_time = @ + TIME_STEP],
        fr |-> [fr EXCEPT !.metrics = c.metrics, !.pc = "loop"]]

\* the steps of an iteration after the first, each at its place in the body
\* of the loop, on the heap and frame the step before left
SimDeadNext(s) == IF s.fr.pc = "dead" THEN SimDead(s.mem, s.fr) ELSE s
SimNurseNext(s) == IF s.fr.pc = "nurse" THEN SimNurse(s.mem, s.fr) ELSE s
SimDoctorNext(s) == IF s.fr.pc = "doctor" THEN SimDoctor(s.mem, s.fr) ELSE s
SimCompletedNext(s) == IF s.fr.pc = "completed" THEN SimCompleted(s.mem, s.fr) ELSE s

\* one pass through the body of the loop
SimTick(M, fr) ==
    SimCompletedNext(SimDoctorNext(SimNurseNext(SimDeadNext(SimPenalty(M, fr)))))

\* one iteration of the while loop, if its condition holds
SimIteration(s) == IF SimLoopCond(s.mem, s.fr) THEN SimTick(s.mem, s.fr) ELSE s

RECURSIVE SimRun(_, _)
\* the while loop, for at most k iterations, k at least 1: the first half of
\* them, then the rest on the heap and frame the first half left
SimRun(s, k) ==
    IF k = 1 THEN SimIteration(s)
    ELSE Only({SimRun(x, k - k \div 2) : x \in {SimRun(s, k \div 2)}})

\* the while loop of simulate_action_sequence: current_time grows by
\* time_step in each iteration, so it ends within simulation_time / time_step
\* iterations
SimLoop(s) == SimRun(s, SIMULATION_TIME \div TIME_STEP + 1)

\* what simulate_action_sequence returns
SimResult(s) == [mem |-> s.mem, state |-> s.fr.state, metrics |-> s.fr.metrics]

\* simulate_action_sequence(initial_state, nurse_actions, doctor_actions):
\* the heap after the call, the final state's reference and the metrics
simulate_action_sequence(M, g, nurse_actions, doctor_actions) ==
    SimResult(SimLoop(SimBegin(M, g, nurse_actions, doctor_actions)))

-----------------------------------------------------------------------------
(* StrategyGenerator *)

\* the keys of StrategyGenerator.STRATEGIES, in the dict's order
StrategyNames ==
    <<"PARALLEL_CRITICAL", "SEQUENTIAL_SEVERITY", "DOCTOR_CRITICAL_NURSE_OTHERS",
      "COOPERATIVE_ALL", "NEAREST_FIRST", "NURSE_TRIAGE_DOCTOR_TREAT">>

Strategies == Range(StrategyNames)

\* StrategyGenerator.STRATEGIES (the descriptions are left out)
STRATEGIES ==
    [PARALLEL_CRITICAL |-> [priority |-> "critical_first", cooperation |-> TRUE],
     SEQUENTIAL_SEVERITY |-> [priority |-> "severity", cooperation |-> FALSE],
     DOCTOR_CRITICAL_NURSE_OTHERS |-> [priority |-> "split_by_type", cooperation |-> FALSE],
     COOPERATIVE_ALL |-> [priority |-> "fifo", cooperation |-> TRUE],
     NEAREST_FIRST |-> [priority |-> "distance", cooperation |-> FALSE],
     NURSE_TRIAGE_DOCTOR_TREAT |-> [priority |-> "role_based", cooperation |-> FALSE]]

\* the Patient objects of state.patients, in the list's order
PatientsOf(M, g) == [i \in 1..Len(M.gs[g].patients) |-> M.pat[M.gs[g].patients[i]]]

RECURSIVE InsertByUrgency(_, _)
\* x placed before the first element less urgent than x
InsertByUrgency(sorted, x) ==
    IF sorted = <<>> THEN <<x>>
    ELSE IF urgency(Head(sorted)) < urgency(x) THEN <<x>> \o sorted
    ELSE <<Head(sorted)>> \o InsertByUrgency(Tail(sorted), x)

RECURSIVE SortLoop(_, _, _)
SortLoop(ps, i, sorted) ==
    IF i > Len(ps) THEN sorted ELSE SortLoop(ps, i + 1, InsertByUrgency(sorted, ps[i]))

\* sorted(patients, key=lambda p: -p.urgency): stable, most urgent first
SortedByUrgency(ps) == SortLoop(ps, 1, <<>>)

\* what one patient, at 0-based position i of the list, adds to the two
\* sequences under a priority rule
GenChunk(p, i, priority) ==
    LET n == Len(p.pathway)
        t == Repeat(Treat(p.id), n)
    IN CASE priority = "critical_first" ->
              IF p.ptype = "Critical" THEN [nurse |-> t, doctor |-> t]
              ELSE [nurse |-> t, doctor |-> Repeat(Wait, n)]
         [] priority = "severity" -> [nurse |-> t, doctor |-> t]
         [] priority = "split_by_type" ->
              IF p.ptype = "Critical" THEN [nurse |-> <<>>, doctor |-> t]
              ELSE [nurse |-> t, doctor |-> <<>>]
         [] priority = "fifo" -> [nurse |-> t, doctor |-> t]
         [] priority = "distance" ->
              IF i % 2 = 0 THEN [nurse |-> t, doctor |-> <<>>]
              ELSE [nurse |-> <<>>, doctor |-> t]
         [] priority = "role_based" ->
              [nurse |-> <<Treat(p.id)>>, doctor |-> Repeat(Treat(p.id), n - 1)]
         [] OTHER -> [nurse |-> <<>>, doctor |-> <<>>]

RECURSIVE GenLoop(_, _, _)
\* the for loop over the patients, from list position i (1-based) on
GenLoop(ps, i, priority) ==
    IF i > Len(ps) THEN [nurse |-> <<>>, doctor |-> <<>>]
    ELSE LET c == GenChunk(ps[i], i - 1, priority)
             rest == GenLoop(ps, i + 1, priority)
         IN [nurse |-> c.nurse \o rest.nurse, doctor |-> c.doctor \o rest.doctor]

\* "Pad shorter list with WAIT"
PadWithWait(a) ==
    LET max_len == Max(Len(a.nurse), Len(a.doctor))
    IN [nurse |-> a.nurse \o Repeat(Wait, max_len - Len(a.nurse)),
        doctor |-> a.doctor \o Repeat(Wait, max_len - Len(a.doctor))]

\* generation with the padding left out
generate_unpadded(ps, strategy_name) ==
    LET priority == STRATEGIES[strategy_name].priority
        sorted == IF priority \in {"critical_first", "severity"}
                  THEN SortedByUrgency(ps) ELSE ps
    IN GenLoop(sorted, 1, priority)

\* generate_action_sequences(state, strategy_name), on the list of patients
generate_action_sequences(ps, strategy_name) ==
    LET priority == STRATEGIES[strategy_name].priority
        sorted == IF priority \in {"critical_first", "severity"}
                  THEN SortedByUrgency(ps) ELSE ps
        a == GenLoop(sorted, 1, priority)
    IN IF priority \in {"split_by_type", "distance", "role_based"}
       THEN PadWithWait(a) ELSE a

-----------------------------------------------------------------------------
(* The plan compiler: DynamicRegretAnalyzer._generate_unity_commands *)

\* DynamicRegretAnalyzer.treatment_times
treatment_times == [TRIAGE |-> 5, TB |-> 15, LAB |-> 20, ICU |-> 45]

Escort(room, id, from_room) ==
    [action |-> "ESCORT", target |-> room, patient_id |-> id, duration |-> 0,
     from_room |-> from_room]

TreatCmd(room, id) ==
    [action |-> "TREAT", target |-> room, patient_id |-> id,
     duration |-> IF room \in DOMAIN treatment_times THEN treatment_times[room] ELSE 10]

Leave(room, id) ==
    [action |-> "LEAVE_PATIENT", target |-> room, patient_id |-> id, duration |-> 0]

Move == [action |-> "MOVE", target |-> "ENT", patient_id |-> -1, duration |-> 0]

\* the commands one room of one patient's pathway adds
RoomCommands(strategy, p, room, from_room) ==
    LET is_critical == p.ptype = "Critical"
        pair == <<Escort(room, p.id, from_room), TreatCmd(room, p.id)>>
    IN CASE strategy = "DOCTOR_CRITICAL_NURSE_OTHERS" ->
              IF is_critical
              THEN [nurse |-> <<>>, doctor |-> pair, has_doctor |-> TRUE]
              ELSE [nurse |-> pair, doctor |-> <<>>, has_doctor |-> FALSE]
         [] strategy = "NURSE_TRIAGE_DOCTOR_TREAT" ->
              IF room = "TRIAGE"
              THEN [nurse |-> pair \o <<Leave(room, p.id)>>, doctor |-> <<>>,
                    has_doctor |-> FALSE]
              ELSE [nurse |-> <<>>, doctor |-> pair, has_doctor |-> TRUE]
         [] strategy = "PARALLEL_CRITICAL" ->
              IF is_critical
              THEN [nurse |-> pair, doctor |-> pair, has_doctor |-> TRUE]
              ELSE [nurse |-> pair, doctor |-> <<>>, has_doctor |-> FALSE]
         [] strategy = "COOPERATIVE_ALL" ->
              [nurse |-> pair, doctor |-> pair, has_doctor |-> TRUE]
         [] OTHER ->
              IF is_critical /\ room \in {"TB", "ICU"}
              THEN [nurse |-> pair, doctor |-> pair, has_doctor |-> TRUE]
              ELSE [nurse |-> pair, doctor |-> <<>>, has_doctor |-> FALSE]

RECURSIVE PathwayLoop(_, _, _, _)
\* "for room in patient.pathway", from pathway position i on
PathwayLoop(strategy, p, i, from_room) ==
    IF i > Len(p.pathway) THEN [nurse |-> <<>>, doctor |-> <<>>, has_doctor |-> FALSE]
    ELSE LET room == p.pathway[i]
             c == RoomCommands(strategy, p, room, from_room)
             rest == PathwayLoop(strategy, p, i + 1, room)
         IN [nurse |-> c.nurse \o rest.nurse, doctor |-> c.doctor \o rest.doctor,
             has_doctor |-> c.has_doctor \/ rest.has_doctor]

\* the commands of one patient, were the loop to stop after the first room
PatientCommandsFirstRoom(strategy, p) ==
    LET c == IF p.pathway = <<>>
             THEN [nurse |-> <<>>, doctor |-> <<>>, has_doctor |-> FALSE]
             ELSE RoomCommands(strategy, p, p.pathway[1], "WAITING")
    IN [nurse |-> c.nurse, doctor |-> c.doctor]

\* the commands of one patient: its pathway, then the doctor's leave after ICU
PatientCommands(strategy, p) ==
    LET c == PathwayLoop(strategy, p, 1, "WAITING")
    IN IF p.pathway # <<>> /\ p.pathway[Len(p.pathway)] = "ICU" /\ c.has_doctor
       THEN [nurse |-> c.nurse, doctor |-> c.doctor \o <<Leave("ICU", p.id)>>]
       ELSE [nurse |-> c.nurse, doctor |-> c.doctor]

RECURSIVE PrimaryLoop(_, _, _)
\* "for patient in patients", from list position i on
PrimaryLoop(strategy, ps, i) ==
    IF i > Len(ps) THEN [nurse |-> <<>>, doctor |-> <<>>]
    ELSE LET c == PatientCommands(strategy, ps[i])
             rest == PrimaryLoop(strategy, ps, i + 1)
         IN [nurse |-> c.nurse \o rest.nurse, doctor |-> c.doctor \o rest.doctor]

\* primary generation: the sort and the loop over the patients
PrimaryCommands(ps, strategy) ==
    LET priority == STRATEGIES[strategy].priority
        patients == IF priority \in {"critical_first", "severity"}
                    THEN SortedByUrgency(ps) ELSE ps
    IN PrimaryLoop(strategy, patients, 1)

\* the ids the final verification finds without nurse commands
MissingPatients(ps, nurse_commands) ==
    LET all_patient_ids == {ps[i].id : i \in 1..Len(ps)}
        nurse_covered == {nurse_commands[i].patient_id :
                            i \in {j \in 1..Len(nurse_commands) :
                                     /\ nurse_commands[j].action \in {"ESCORT", "TREAT"}
                                     /\ nurse_commands[j].patient_id > 0}}
    IN all_patient_ids \ nurse_covered

RECURSIVE FallbackRooms(_, _, _)
FallbackRooms(pathway, i, patient_id) ==
    IF i > Len(pathway) THEN <<>>
    ELSE <<Escort(pathway[i], patient_id, "WAITING"), TreatCmd(pathway[i], patient_id)>>
         \o FallbackRooms(pathway, i + 1, patient_id)

RECURSIVE FallbackLoop(_, _)
\* "for patient_id in missing_patients": a set of small ints, which CPython
\* iterates in increasing order
FallbackLoop(ps, missing) ==
    IF missing = {} THEN <<>>
    ELSE LET patient_id == CHOOSE m \in missing : \A o \in missing : m <= o
             found == {i \in 1..Len(ps) : ps[i].id = patient_id}
             first == CHOOSE i \in found : \A j \in found : i <= j
         IN (IF found # {} THEN FallbackRooms(ps[first].pathway, 1, patient_id) ELSE <<>>)
            \o FallbackLoop(ps, missing \ {patient_id})

\* the compiler without its last two statements
generate_unity_commands_unpadded(ps, strategy) ==
    LET c == PrimaryCommands(ps, strategy)
        missing_patients == MissingPatients(ps, c.nurse)
    IN [nurse |-> c.nurse \o FallbackLoop(ps, missing_patients),
        doctor |-> c.doctor, missing_patients |-> missing_patients]

\* _generate_unity_commands(state, strategy), on the list of patients; with the
\* two lists it returns, the set of patients its verification pass repaired
generate_unity_commands(ps, strategy) ==
    LET c == PrimaryCommands(ps, strategy)
        missing_patients == MissingPatients(ps, c.nurse)
        nurse1 == c.nurse \o FallbackLoop(ps, missing_patients)
        nurse2 == IF nurse1 = <<>> THEN <<Move>> ELSE nurse1
        doctor2 == IF c.doctor = <<>> THEN <<Move>> ELSE c.doctor
    IN [nurse |-> nurse2, doctor |-> doctor2, missing_patients |-> missing_patients]

-----------------------------------------------------------------------------
(* Exact rationals <<n, d>>, d > 0, in lowest terms *)

RECURSIVE GCD(_, _)
GCD(a, b) == IF b = 0 THEN a ELSE GCD(b, a % b)

Rat(n, d) ==
    LET g == GCD(Abs(n), Abs(d))
        sg == IF d < 0 THEN -1 ELSE 1
    IN <<sg * (n \div g), sg * (d \div g)>>

RZero == <<0, 1>>
ROne == <<1, 1>>
RInt(n) == <<n, 1>>
\* the operations cancel common factors before they multiply, which keeps
\* the intermediate products small
RAdd(x, y) ==
    LET g == GCD(x[2], y[2])
    IN Rat(x[1] * (y[2] \div g) + y[1] * (x[2] \div g), (x[2] \div g) * y[2])
RNeg(x) == <<-x[1], x[2]>>
RSub(x, y) == RAdd(x, RNeg(y))
RMul(x, y) ==
    LET g1 == GCD(Abs(x[1]), y[2])
        g2 == GCD(Abs(y[1]), x[2])
    IN Rat((x[1] \div g1) * (y[1] \div g2), (x[2] \div g2) * (y[2] \div g1))
RDiv(x, y) == RMul(x, IF y[1] < 0 THEN <<-y[2], -y[1]>> ELSE <<y[2], y[1]>>)
RLess(x, y) ==
    LET g == GCD(x[2], y[2])
    IN x[1] * (y[2] \div g) < y[1] * (x[2] \div g)
RLeq(x, y) == ~RLess(y, x)
RMax(x, y) == IF RLess(x, y) THEN y ELSE x

-----------------------------------------------------------------------------
(* Python dicts: the keys in insertion order, and the values *)

EmptyDict == [keys |-> <<>>, val |-> <<>>]

Has(d, k) == k \in DOMAIN d.val

\* d[k] = v
Put(d, k, v) ==
    IF Has(d, k) THEN [d EXCEPT !.val[k] = v]
    ELSE [keys |-> Append(d.keys, k), val |-> d.val @@ (k :> v)]

\* d.get(k, default)
Get(d, k, default) == IF Has(d, k) THEN d.val[k] ELSE default

\* the dict with the keys of the list ks, in its order, and the value F(k),
\* each value computed when the dict is built
DictOf(ks, F(_)) == [keys |-> ks, val |-> [k \in Range(ks) |-> F(k)] @@ <<>>]

RECURSIVE RSumSeq(_, _)
\* sum(xs) over a list of rationals, from position i on
RSumSeq(xs, i) ==
    IF i > Len(xs) THEN RZero
    ELSE Only({RAdd(xs[i], rest) : rest \in {RSumSeq(xs, i + 1)}})

\* d.values(), a list
Values(d) == [i \in 1..Len(d.keys) |-> d.val[d.keys[i]]] @@ <<>>

\* sum(d.values())
SumValues(d) == RSumSeq(Values(d), 1)

RECURSIVE RMaxSeq(_, _)
\* max(xs) of a non-empty list of rationals, from position i on
RMaxSeq(xs, i) ==
    IF i >= Len(xs) THEN xs[i]
    ELSE Only({RMax(xs[i], rest) : rest \in {RMaxSeq(xs, i + 1)}})

RECURSIVE ArgMaxFrom(_, _, _)
\* max(d, key=d.get): the first key, in the dict's order, whose value no
\* later key exceeds
ArgMaxFrom(d, i, best) ==
    IF i > Len(d.keys) THEN best
    ELSE IF RLess(d.val[best], d.val[d.keys[i]]) THEN ArgMaxFrom(d, i + 1, d.keys[i])
    ELSE ArgMaxFrom(d, i + 1, best)

ArgMax(d) == ArgMaxFrom(d, 2, d.keys[1])

-----------------------------------------------------------------------------
(* CFRRegretMinimizer *)

\* CFRRegretMinimizer.__init__
NewCfr ==
    [regret_sum |-> EmptyDict, strategy_sum |-> EmptyDict,
     iteration_history |-> <<>>, regret_history |-> <<>>,
     cumulative_regret |-> RZero, distance_to_optimal_history |-> <<>>,
     total_iterations |-> 0, strategy_values |-> EmptyDict,
     prev_probs |-> EmptyDict]

RECURSIVE TouchKeys(_, _, _)
\* reading self.regret_sum[s] for each s: a defaultdict(float) inserts 0.0
\* for a key it does not hold
TouchKeys(d, ks, i) ==
    IF i > Len(ks) THEN d
    ELSE Only({TouchKeys(d2, ks, i + 1) :
                 d2 \in {IF Has(d, ks[i]) THEN d ELSE Put(d, ks[i], RZero)}})

\* regret matching without the clamp of negative regrets
get_strategy_probabilities_unclamped(C, strategies) ==
    LET regret_sum == TouchKeys(C.regret_sum, strategies, 1)
        R(s) == regret_sum.val[s]
        positive_regrets == DictOf(strategies, R)
        total == SumValues(positive_regrets)
        P(s) == RDiv(positive_regrets.val[s], total)
        U(s) == Rat(1, Len(strategies))
    IN [cfr |-> [C EXCEPT !.regret_sum = regret_sum],
        probs |-> IF total # RZero THEN DictOf(strategies, P)
                  ELSE DictOf(strategies, U)]

\* get_strategy_probabilities(strategies): the probabilities, and the learner
\* with the keys the reads inserted
get_strategy_probabilities(C, strategies) ==
    LET regret_sum == TouchKeys(C.regret_sum, strategies, 1)
        R(s) == RMax(RZero, regret_sum.val[s])
        positive_regrets == DictOf(strategies, R)
        total == SumValues(positive_regrets)
        P(s) == RDiv(positive_regrets.val[s], total)
        U(s) == Rat(1, Len(strategies))
    IN [cfr |-> [C EXCEPT !.regret_sum = regret_sum],
        probs |-> IF RLess(RZero, total) THEN DictOf(strategies, P)
                  ELSE DictOf(strategies, U)]

RECURSIVE NodeValue(_, _, _, _)
\* sum(probs.get(s, 0) * strategy_values.get(s, 0) for s in strategies)
NodeValue(probs, strategy_values, strategies, i) ==
    IF i > Len(strategies) THEN RZero
    ELSE Only({RAdd(RMul(Get(probs, strategies[i], RZero),
                         Get(strategy_values, strategies[i], RZero)), rest) :
                 rest \in {NodeValue(probs, strategy_values, strategies, i + 1)}})

RECURSIVE RegretLoop(_, _, _, _)
\* for strategy, value in strategy_values.items(): add the instant regret,
\* and append the value to the strategy's list of values
RegretLoop(C, strategy_values, i, node_value) ==
    IF i > Len(strategy_values.keys) THEN C
    ELSE LET strategy == strategy_values.keys[i]
             value == strategy_values.val[strategy]
             instant_regret == RSub(value, node_value)
         IN Only({RegretLoop(C2, strategy_values, i + 1, node_value) :
                    C2 \in {[C EXCEPT
                               !.regret_sum = Put(@, strategy,
                                                  RAdd(Get(@, strategy, RZero),
                                                       instant_regret)),
                               !.strategy_values = Put(@, strategy,
                                                       Append(Get(@, strategy, <<>>),
                                                              value))]}})

\* The distance diagnostic is std_dev of the policy, plus half the norm of
\* its change from the previous policy where there is one: a sum of two
\* square roots.  An entry of the series keeps what the number is computed
\* from: the policy, and whether a previous one existed (it is then the
\* policy of the entry before)
Distance(probs, prev_probs, strategies) ==
    [probs |-> probs, has_change |-> prev_probs.keys # <<>>]

\* update_regrets, its tracking part: the cumulative regret, the policy g2
\* of the regrets C1 and the distance diagnostic, then the counter
UpdateTrack(C1, g2, strategies, cumulative_regret) ==
    [g2.cfr EXCEPT
       !.cumulative_regret = cumulative_regret,
       !.regret_history = Append(@, cumulative_regret),
       !.distance_to_optimal_history =
           Append(@, Distance(g2.probs, C1.prev_probs, strategies)),
       !.prev_probs = g2.probs,
       !.total_iterations = @ + 1]

\* a tracking step that takes the best value from the node value
UpdateRegretBelowNode(C1, strategy_values, node_value) ==
    Only({UpdateTrack(C1, g2, strategy_values.keys,
                      RAdd(C1.cumulative_regret,
                           RSub(node_value, RMaxSeq(Values(strategy_values), 1)))) :
            g2 \in {get_strategy_probabilities(C1, strategy_values.keys)}})

\* update_regrets, after the regrets C1 have been updated
UpdateRegret(C1, strategy_values, node_value) ==
    Only({UpdateTrack(C1, g2, strategy_values.keys,
                      RAdd(C1.cumulative_regret,
                           RSub(RMaxSeq(Values(strategy_values), 1), node_value))) :
            g2 \in {get_strategy_probabilities(C1, strategy_values.keys)}})

\* update_regrets, from the node value on
UpdateLoop(g1, strategy_values, node_value) ==
    Only({UpdateRegret(C1, strategy_values, node_value) :
            C1 \in {RegretLoop(g1.cfr, strategy_values, 1, node_value)}})

\* update_regrets, after the policy g1 of the regrets before the update
UpdateNode(g1, strategy_values) ==
    Only({UpdateLoop(x, strategy_values, node_value) :
            x \in {g1},
            node_value \in {NodeValue(g1.probs, strategy_values,
                                      strategy_values.keys, 1)}})

\* an update that measures every value against the selected strategy's value
update_regrets_against_selected(C, strategy_values, selected_strategy) ==
    IF strategy_values.keys = <<>> THEN C
    ELSE UpdateLoop(get_strategy_probabilities(C, strategy_values.keys),
                    strategy_values, strategy_values.val[selected_strategy])

\* update_regrets(strategy_values, selected_strategy)
update_regrets(C, strategy_values, selected_strategy) ==
    IF strategy_values.keys = <<>> THEN C
    ELSE UpdateNode(get_strategy_probabilities(C, strategy_values.keys),
                    strategy_values)

\* the strategies select_strategy can return: np.random.choice draws one
\* with non-zero probability
Selectable(probs) == {s \in Range(probs.keys) : RLess(RZero, probs.val[s])}

\* the average policy without the division by the total
get_average_strategy_unnormalised(C) ==
    IF RLess(RZero, SumValues(C.strategy_sum)) THEN C.strategy_sum ELSE EmptyDict

\* get_average_strategy(): the empty dict while nothing has been recorded
get_average_strategy(C) ==
    LET total == SumValues(C.strategy_sum)
        A(s) == RDiv(C.strategy_sum.val[s], total)
    IN IF RLess(RZero, total) THEN DictOf(C.strategy_sum.keys, A) ELSE EmptyDict

RECURSIVE SumLoop(_, _, _)
\* for s, p in probs.items(): self.strategy_sum[s] += p
SumLoop(strategy_sum, probs, i) ==
    IF i > Len(probs.keys) THEN strategy_sum
    ELSE LET s == probs.keys[i]
         IN Only({SumLoop(sum2, probs, i + 1) :
                    sum2 \in {Put(strategy_sum, s,
                                  RAdd(Get(strategy_sum, s, RZero), probs.val[s]))}})

\* record_iteration(strategy_values, selected, probs, reward)
record_iteration(C, strategy_values, selected, probs, reward) ==
    [C EXCEPT
       !.iteration_history =
           Append(@, [iteration |-> C.total_iterations,
                      strategy_values |-> strategy_values,
                      selected_strategy |-> selected,
                      probabilities |-> probs,
                      reward |-> reward]),
       !.strategy_sum = SumLoop(@, probs, 1)]

\* get_statistics()
get_statistics(C) ==
    [total_iterations |-> C.total_iterations,
     cumulative_regret |-> C.cumulative_regret,
     average_strategy |-> get_average_strategy(C),
     regret_by_strategy |-> C.regret_sum,
     strategy_frequency |-> C.strategy_sum,
     nash_distance |-> IF C.distance_to_optimal_history # <<>>
                       THEN C.distance_to_optimal_history[Len(C.distance_to_optimal_history)]
                       ELSE [probs |-> EmptyDict, has_change |-> FALSE]]

-----------------------------------------------------------------------------
(* DynamicRegretAnalyzer: evaluate_all_strategies and analyze_and_plan *)

\* NUM_CFR_ITERATIONS of analyze_and_plan
NUM_CFR_ITERATIONS == 20
\* num_simulations, as analyze_and_plan passes it
NUM_SIMULATIONS == 5

\* the value of one simulation, in tenths: healing + 50 per completed patient
\* + 10 per cooperation event - penalty - 2 per idle tick
SimulationValue(metrics) ==
    metrics.total_healing + metrics.patients_completed * 500
    + metrics.cooperation_events * 100 - metrics.total_penalty
    - metrics.idle_time * 20

\* one pass of "for _ in range(num_simulations)": generate, then simulate
SimulateActions(M, g, a) == simulate_action_sequence(M, g, a.nurse, a.doctor)

SimulationRun(M, g, strategy_name) ==
    SimulateActions(M, g, generate_action_sequences(PatientsOf(M, g) @@ <<>>,
                                                    strategy_name))

RECURSIVE SimulationsLoop(_, _, _, _, _)
RECURSIVE SimulationsAdd(_, _, _, _, _, _, _)
RECURSIVE SimulationsNext(_, _, _, _, _, _)
\* The final state a run returns is dropped, so what it allocated is garbage:
\* the heap after a run is what the caller's states still reach
SimulationsNext(M, g, strategy_name, left, total_reward, r) ==
    SimulationsAdd(M, g, strategy_name, left, total_reward,
                   Reachable(r.mem, DOMAIN M.gs), SimulationValue(r.metrics))

\* "for _ in range(num_simulations)": generate, simulate, add up the value
SimulationsLoop(M, g, strategy_name, left, total_reward) ==
    IF left = 0 THEN [mem |-> M, total_reward |-> total_reward]
    ELSE Only({SimulationsNext(M, g, strategy_name, left, total_reward, r) :
                 r \in {SimulationRun(M, g, strategy_name)}})

\* total_reward += value, and the remaining passes on the heap M2 the pass
\* left.  A pass that leaves the heap as it found it would repeat itself
\* exactly, so the remaining passes are not replayed: they add the same
\* value again.
SimulationsAdd(M, g, strategy_name, left, total_reward, M2, value) ==
    IF M = M2
    THEN [mem |-> M, total_reward |-> total_reward + left * value]
    ELSE SimulationsLoop(M2, g, strategy_name, left - 1, total_reward + value)

\* strategy_values[strategy_name] = avg_value, before the noise, behind the
\* entries of the strategies before it, on the heap the simulations left
StrategiesAdd(s, strategy_name, num_simulations, l) ==
    [mem |-> l.mem,
     avg_value |-> [keys |-> Append(s.avg_value.keys, strategy_name),
                    val |-> (strategy_name :> Rat(l.total_reward, num_simulations * 10))
                            @@ s.avg_value.val]]

\* the pass of the loop over the strategies for strategy_name
StrategiesNext(s, g, num_simulations, strategy_name) ==
    StrategiesAdd(s, strategy_name, num_simulations,
                  SimulationsLoop(s.mem, g, strategy_name, num_simulations, 0))

RECURSIVE StrategiesLoop(_, _, _)
\* "for strategy_name in StrategyGenerator.STRATEGIES": the average value of
\* each strategy, before the noise; s holds the heap and the values so far,
\* and the next strategy is the one after those that have a value
StrategiesLoop(s, g, num_simulations) ==
    IF Len(s.avg_value.keys) >= Len(StrategyNames) THEN s
    ELSE StrategiesLoop(
             StrategiesNext(s, g, num_simulations,
                            StrategyNames[Len(s.avg_value.keys) + 1]),
             g, num_simulations)

\* a noise scale that decays with the round's index within the call
NoiseScaleOfRound(C) == RMax(Rat(1, 10), Rat(10, plan.iteration + 1))

\* noise_scale = max(0.1, 10.0 / (self.cfr.total_iterations + 1))
NoiseScale(C) == RMax(Rat(1, 10), Rat(10, C.total_iterations + 1))

\* evaluate_all_strategies(state, num_simulations), up to the noise: the heap
\* after the simulations, the average values and the scale of the noise
EvaluateResult(l, C) ==
    [mem |-> l.mem, avg_value |-> l.avg_value, noise_scale |-> NoiseScale(C)]

evaluate_all_strategies(M, g, num_simulations, C) ==
    EvaluateResult(StrategiesLoop([mem |-> M, avg_value |-> EmptyDict], g, num_simulations), C)

\* The noise np.random.normal(0, noise_scale) is any real, whatever the scale:
\* a round's strategy_values = avg_value + noise can be any vector.  The
\* model draws the vector itself from this family, the noise being what is
\* left: every strategy valued 0, or one strategy valued 1 above the rest,
\* that one being the first or the last of the catalog.
Flat == DictOf(StrategyNames, LAMBDA s : RZero)

OneHot(b) == DictOf(StrategyNames, LAMBDA s : IF s = b THEN ROne ELSE RZero)

ValueVectors ==
    {Flat, OneHot(StrategyNames[1]), OneHot(StrategyNames[Len(StrategyNames)])}

\* Two sources for np.random.choice: the draw that lands on the first
\* strategy with non-zero probability, and the one that lands on the last
SampleSeeds == {"low", "high"}

\* select_strategy(strategies) under a source
select_strategy(probs, seed) ==
    LET idx == {i \in 1..Len(probs.keys) : probs.keys[i] \in Selectable(probs)}
        i == IF seed = "low" THEN CHOOSE k \in idx : \A j \in idx : k <= j
             ELSE CHOOSE k \in idx : \A j \in idx : k >= j
    IN probs.keys[i]

\* the locals of an analyze_and_plan call that is not running; `evaluated`
\* remembers the heap evaluate_all_strategies last ran on and what it
\* computed there, so that a round on the same heap does not replay the
\* simulations (the result is a function of the heap)
IdlePlan ==
    [pc |-> "idle", iteration |-> 0, strategy_values |-> EmptyDict,
     seed |-> "low", noise_scale |-> RZero,
     evaluated |-> [valid |-> FALSE, mem |-> EmptyMem, avg_value |-> EmptyDict]]

\* the requests for a plan that the server may be serving at once
Calls == {1, 2}

\* the locals of one such call before it enters analyze_and_plan
IdleCall ==
    [pc |-> "idle", iteration |-> 0, strategy_values |-> EmptyDict,
     probs |-> EmptyDict, selected |-> "",
     evaluated |-> [valid |-> FALSE, mem |-> EmptyMem, avg_value |-> EmptyDict]]

\* the final selection with the order of the catalog reversed
FinalSelectionLast(C, strategy_values) ==
    LET avg_strategy == get_average_strategy(C)
        d == IF avg_strategy.keys # <<>> THEN avg_strategy ELSE strategy_values
        best == CHOOSE i \in 1..Len(d.keys) :
                   /\ \A j \in 1..Len(d.keys) : RLeq(d.val[d.keys[j]], d.val[d.keys[i]])
                   /\ \A j \in (i + 1)..Len(d.keys) : RLess(d.val[d.keys[j]], d.val[d.keys[i]])
    IN d.keys[best]

\* "Final selection: use average strategy", with its fallback
FinalSelection(C, strategy_values) ==
    LET avg_strategy == get_average_strategy(C)
    IN IF avg_strategy.keys # <<>> THEN ArgMax(avg_strategy)
       ELSE ArgMax(strategy_values)

\* what analyze_and_plan returns on an empty roster
IdleResult(C) ==
    [op |-> "plan", success |-> TRUE, strategy |-> "IDLE",
     nurse_commands |-> <<>>, doctor_commands |-> <<>>,
     learning_stats |-> get_statistics(C), expected_reward |-> RZero]

\* what analyze_and_plan returns after its rounds
PlanResult(C, ps, strategy_values) ==
    LET best_strategy == FinalSelection(C, strategy_values)
        u == generate_unity_commands(ps, best_strategy)
    IN [op |-> "plan", success |-> TRUE, strategy |-> best_strategy,
        expected_value |-> Get(strategy_values, best_strategy, RZero),
        all_strategy_values |-> strategy_values,
        nurse_commands |-> u.nurse, doctor_commands |-> u.doctor,
        learning_stats |-> get_statistics(C),
        expected_reward |-> Get(strategy_values, best_strategy, RZero)]

NoRet == [op |-> "none"]

-----------------------------------------------------------------------------
(* The service after construction: analyzer = DynamicRegretAnalyzer() *)

Init ==
    /\ mem = EmptyMem
    /\ current_state = NoneRef
    /\ patient_counter = 0
    /\ cfr = NewCfr
    /\ plan = IdlePlan
    /\ sim = IdleSim
    /\ calls = [c \in Calls |-> IdleCall]
    /\ ret = NoRet

\* no call is in progress: the operations below run one at a time
Quiet == plan.pc = "idle" /\ sim.pc = "idle"

\* the roster of the live scenario, as Patient values
Roster == IF current_state = NoneRef THEN <<>> ELSE PatientsOf(mem, current_state)

\* a spawn that numbers the patient by its place in the roster
SpawnNumberedByPlace ==
    /\ Quiet
    /\ patient_counter < MaxId
    /\ Len(Roster) < MaxPatients
    /\ \E ptype \in PatientTypes :
          LET id == Len(Roster) + 1
              patient == Patient(id, ptype, INITIAL_HEALTH[ptype], PATHWAYS[ptype], 0,
                                 DEADLINES[ptype], ptype = "Critical")
              g == IF current_state = NoneRef THEN NextFree(DOMAIN mem.gs)
                   ELSE current_state
              gs1 == IF current_state = NoneRef THEN mem.gs @@ (g :> GameState)
                     ELSE mem.gs
              r == NextFree(DOMAIN mem.pat)
          IN /\ patient_counter' = patient_counter + 1
             /\ current_state' = g
             /\ mem' = [pat |-> mem.pat @@ (r :> patient),
                        gs |-> [gs1 EXCEPT ![g].patients = Append(@, r)]]
             /\ ret' = [op |-> "spawn", patient |-> patient]
    /\ UNCHANGED <<cfr, plan, sim, calls>>

\* spawn_patient(ptype) for a type of the game
Spawn ==
    /\ Quiet
    /\ patient_counter < MaxId
    /\ Len(Roster) < MaxPatients
    /\ \E ptype \in PatientTypes :
          LET id == patient_counter + 1
              patient == Patient(id, ptype, INITIAL_HEALTH[ptype], PATHWAYS[ptype], 0,
                                 DEADLINES[ptype], ptype = "Critical")
              g == IF current_state = NoneRef THEN NextFree(DOMAIN mem.gs)
                   ELSE current_state
              gs1 == IF current_state = NoneRef THEN mem.gs @@ (g :> GameState)
                     ELSE mem.gs
              r == NextFree(DOMAIN mem.pat)
          IN /\ patient_counter' = id
             /\ current_state' = g
             /\ mem' = [pat |-> mem.pat @@ (r :> patient),
                        gs |-> [gs1 EXCEPT ![g].patients = Append(@, r)]]
             /\ ret' = [op |-> "spawn", patient |-> patient]
    /\ UNCHANGED <<cfr, plan, sim, calls>>

\* spawn_patient(ptype) for any other string: the counter is incremented,
\* then INITIAL_HEALTH[ptype] raises KeyError
SpawnUnknown ==
    /\ Quiet
    /\ patient_counter < MaxId
    /\ patient_counter' = patient_counter + 1
    /\ ret' = [op |-> "spawn", error |-> "KeyError"]
    /\ UNCHANGED <<mem, current_state, cfr, plan, sim, calls>>

\* the first position of the roster that holds the id, 0 if none
FindPatient(ps, patient_id) ==
    IF \E i \in 1..Len(ps) : ps[i].id = patient_id
    THEN CHOOSE i \in 1..Len(ps) :
            /\ ps[i].id = patient_id
            /\ \A j \in 1..(i - 1) : ps[j].id # patient_id
    ELSE 0

\* step_patient without the is_complete test
step_patient_unguarded(M, g, patient_id) ==
    IF g = NoneRef THEN [mem |-> M, result |-> FALSE]
    ELSE LET i == FindPatient(PatientsOf(M, g), patient_id)
         IN IF i = 0 THEN [mem |-> M, result |-> FALSE]
            ELSE LET r == M.gs[g].patients[i]
                     M2 == [M EXCEPT !.pat[r].current_step = @ + 1]
                 IN [mem |-> M2, result |-> is_complete(M2.pat[r])]

\* step_patient(patient_id)
step_patient(M, g, patient_id) ==
    IF g = NoneRef THEN [mem |-> M, result |-> FALSE]
    ELSE LET i == FindPatient(PatientsOf(M, g), patient_id)
         IN IF i = 0 THEN [mem |-> M, result |-> FALSE]
            ELSE LET r == M.gs[g].patients[i]
                     M2 == IF ~is_complete(M.pat[r])
                           THEN [M EXCEPT !.pat[r].current_step = @ + 1]
                           ELSE M
                 IN [mem |-> M2, result |-> is_complete(M2.pat[r])]

StepPatient ==
    /\ Quiet
    /\ \E patient_id \in 1..MaxId :
          LET t == step_patient(mem, current_state, patient_id)
          IN /\ mem' = t.mem
             /\ ret' = [op |-> "step", patient_id |-> patient_id, result |-> t.result]
    /\ UNCHANGED <<current_state, patient_counter, cfr, plan, sim, calls>>

\* a removal that drops the last patient of the list when the id is not found
remove_patient_or_last(M, g, patient_id) ==
    IF g = NoneRef THEN M
    ELSE LET refs == M.gs[g].patients
             kept == SelectRefs(refs, LAMBDA r : M.pat[r].id # patient_id)
         IN Reachable([M EXCEPT !.gs[g].patients =
                          IF kept = refs /\ refs # <<>>
                          THEN SubSeq(refs, 1, Len(refs) - 1) ELSE kept], {g})

\* remove_patient(patient_id): the list is rebuilt without the id
remove_patient(M, g, patient_id) ==
    IF g = NoneRef THEN M
    ELSE Reachable([M EXCEPT !.gs[g].patients =
                       SelectRefs(@, LAMBDA r : M.pat[r].id # patient_id)], {g})

RemovePatient ==
    /\ Quiet
    /\ \E patient_id \in 1..MaxId :
          /\ mem' = remove_patient(mem, current_state, patient_id)
          /\ ret' = [op |-> "remove", patient_id |-> patient_id]
    /\ UNCHANGED <<current_state, patient_counter, cfr, plan, sim, calls>>

\* a reset that clears the learner along with the scenario
ResetWithLearner ==
    /\ Quiet
    /\ patient_counter' = 0
    /\ current_state' = NoneRef
    /\ mem' = Reachable(mem, {})
    /\ cfr' = NewCfr
    /\ ret' = [op |-> "reset"]
    /\ UNCHANGED <<plan, sim, calls>>

\* DynamicRegretAnalyzer.reset()
Reset ==
    /\ Quiet
    /\ patient_counter' = 0
    /\ current_state' = NoneRef
    /\ mem' = Reachable(mem, {})
    /\ ret' = [op |-> "reset"]
    /\ UNCHANGED <<cfr, plan, sim, calls>>

\* POST /reset of app.py: analyzer = DynamicRegretAnalyzer()
AppReset ==
    /\ Quiet
    /\ patient_counter' = 0
    /\ current_state' = NoneRef
    /\ mem' = Reachable(mem, {})
    /\ cfr' = NewCfr
    /\ ret' = [op |-> "app_reset"]
    /\ UNCHANGED <<plan, sim, calls>>

-----------------------------------------------------------------------------
(* The pure generators, applied to the live roster *)

\* StrategyGenerator.generate_action_sequences(state, strategy_name)
Generate ==
    /\ Quiet
    /\ current_state # NoneRef
    /\ \E strategy_name \in Strategies :
          LET a == generate_action_sequences(Roster, strategy_name)
          IN ret' = [op |-> "generate", strategy |-> strategy_name, roster |-> Roster,
                     nurse |-> a.nurse, doctor |-> a.doctor]
    /\ UNCHANGED <<mem, current_state, patient_counter, cfr, plan, sim, calls>>

\* a compiler that sorts state.patients itself where it sorts at all
CompileInPlace ==
    /\ Quiet
    /\ current_state # NoneRef
    /\ \E strategy \in Strategies :
          LET u == generate_unity_commands(Roster, strategy)
              refs == mem.gs[current_state].patients
              sorted == IF STRATEGIES[strategy].priority \in {"critical_first", "severity"}
                        THEN SortedByUrgency(Roster) ELSE Roster
          IN /\ ret' = [op |-> "compile", strategy |-> strategy, roster |-> Roster,
                        nurse |-> u.nurse, doctor |-> u.doctor,
                        missing_patients |-> u.missing_patients]
             /\ mem' = [mem EXCEPT !.gs[current_state].patients =
                           [i \in 1..Len(refs) |->
                              CHOOSE r \in {refs[j] : j \in 1..Len(refs)} :
                                 mem.pat[r] = sorted[i]]]
    /\ UNCHANGED <<current_state, patient_counter, cfr, plan, sim, calls>>

\* _generate_unity_commands(state, strategy)
Compile ==
    /\ Quiet
    /\ current_state # NoneRef
    /\ \E strategy \in Strategies :
          LET u == generate_unity_commands(Roster, strategy)
          IN ret' = [op |-> "compile", strategy |-> strategy, roster |-> Roster,
                     nurse |-> u.nurse, doctor |-> u.doctor,
                     missing_patients |-> u.missing_patients]
    /\ UNCHANGED <<mem, current_state, patient_counter, cfr, plan, sim, calls>>

-----------------------------------------------------------------------------
(* simulate_action_sequence on the live scenario and the sequences of one  *)
(* strategy, as evaluate_all_strategies calls it; a tick is five steps.    *)

SimStart ==
    /\ Quiet
    /\ current_state # NoneRef
    /\ \E strategy_name \in Strategies :
          LET a == generate_action_sequences(Roster, strategy_name)
              b == SimBegin(mem, current_state, a.nurse, a.doctor)
          IN /\ mem' = b.mem
             /\ sim' = b.fr
             /\ ret' = [op |-> "simulate_start", strategy |-> strategy_name]
    /\ UNCHANGED <<current_state, patient_counter, cfr, plan, calls>>

\* state = self.apply_waiting_penalties(state, time_step)
SimPenalties ==
    /\ sim.pc = "loop"
    /\ SimLoopCond(mem, sim)
    /\ LET t == SimPenalty(mem, sim)
       IN mem' = t.mem /\ sim' = t.fr
    /\ UNCHANGED <<current_state, patient_counter, cfr, plan, ret, calls>>

\* "Check for deaths"
SimRemoveDead ==
    /\ sim.pc = "dead"
    /\ LET t == SimDead(mem, sim)
       IN mem' = t.mem /\ sim' = t.fr
    /\ UNCHANGED <<current_state, patient_counter, cfr, plan, ret, calls>>

\* "Execute nurse action if available"
SimNurseAction ==
    /\ sim.pc = "nurse"
    /\ LET t == SimNurse(mem, sim)
       IN mem' = t.mem /\ sim' = t.fr
    /\ UNCHANGED <<current_state, patient_counter, cfr, plan, ret, calls>>

\* "Execute doctor action if available"
SimDoctorAction ==
    /\ sim.pc = "doctor"
    /\ LET t == SimDoctor(mem, sim)
       IN mem' = t.mem /\ sim' = t.fr
    /\ UNCHANGED <<current_state, patient_counter, cfr, plan, ret, calls>>

\* "Remove completed patients", then state.current_time += time_step
SimRemoveCompleted ==
    /\ sim.pc = "completed"
    /\ LET t == SimCompleted(mem, sim)
       IN mem' = t.mem /\ sim' = t.fr
    /\ UNCHANGED <<current_state, patient_counter, cfr, plan, ret, calls>>

\* return state, metrics: the caller drops the final state
SimReturn ==
    /\ sim.pc = "loop"
    /\ ~SimLoopCond(mem, sim)
    /\ ret' = [op |-> "simulate", state |-> mem.gs[sim.state],
               patients |-> PatientsOf(mem, sim.state), metrics |-> sim.metrics]
    /\ sim' = IdleSim
    /\ mem' = Reachable(mem, {current_state})
    /\ UNCHANGED <<current_state, patient_counter, cfr, plan, calls>>

SimNext ==
    \/ Spawn
    \/ SpawnUnknown
    \/ StepPatient
    \/ RemovePatient
    \/ Reset
    \/ Generate
    \/ Compile
    \/ SimStart
    \/ SimPenalties
    \/ SimRemoveDead
    \/ SimNurseAction
    \/ SimDoctorAction
    \/ SimRemoveCompleted
    \/ SimReturn

SimSpec == Init /\ [][SimNext]_vars

\* the steps of a call of simulate_action_sequence that is under way
SimStep ==
    \/ SimPenalties
    \/ SimRemoveDead
    \/ SimNurseAction
    \/ SimDoctorAction
    \/ SimRemoveCompleted
    \/ SimReturn

\* SimSpec, with a call under way running on: the call is straight-line
\* code in one thread, which takes its next step while it has one.  This is
\* weak fairness of SimStep, written out: a step of the call is enabled
\* exactly while sim.pc is not "idle"
SimFairSpec ==
    SimSpec /\ ([]<>(sim.pc = "idle") \/ []<><<SimStep>>_vars)

-----------------------------------------------------------------------------
(* analyze_and_plan: a call is its entry, twenty rounds and its exit *)

\* the learner's iteration counter is capped: a call starts only if its
\* rounds fit under the cap
MaxIterations == 20

\* an early return that counts as an iteration of the learner
AnalyzeIdleCounted ==
    /\ Quiet
    /\ Roster = <<>>
    /\ cfr.total_iterations < MaxIterations
    /\ cfr' = [cfr EXCEPT !.total_iterations = @ + 1]
    /\ ret' = IdleResult(cfr')
    /\ UNCHANGED <<mem, current_state, patient_counter, plan, sim, calls>>

\* the early return on an empty roster
AnalyzeIdle ==
    /\ Quiet
    /\ Roster = <<>>
    /\ ret' = IdleResult(cfr)
    /\ UNCHANGED <<mem, current_state, patient_counter, cfr, plan, sim, calls>>

\* the entry of a call on a roster that is not empty, while the rounds of
\* the call fit under a cap on the learner's counter
AnalyzeStartUnder(cap) ==
    /\ Quiet
    /\ Roster # <<>>
    /\ cfr.total_iterations + NUM_CFR_ITERATIONS <= cap
    /\ plan' = [IdlePlan EXCEPT !.pc = "rounds"]
    /\ ret' = [op |-> "plan_start"]
    /\ UNCHANGED <<mem, current_state, patient_counter, cfr, sim, calls>>

AnalyzeStart == AnalyzeStartUnder(MaxIterations)

\* One round of "for iteration in range(NUM_CFR_ITERATIONS)".  The values
\* are one of `vectors`; they are those of the call's first round, unless
\* the round is one of `moving`, where the noise moves them; the source of
\* the sampling is one of `seeds`, chosen in the first round.
Round(vectors, seeds, moving) ==
    /\ plan.pc = "rounds"
    /\ plan.iteration < NUM_CFR_ITERATIONS
    /\ LET known == plan.evaluated.valid /\ plan.evaluated.mem = mem
           e == IF known
                THEN [mem |-> mem, avg_value |-> plan.evaluated.avg_value,
                      noise_scale |-> NoiseScale(cfr)]
                ELSE evaluate_all_strategies(mem, current_state, NUM_SIMULATIONS, cfr)
       IN /\ mem' = e.mem
          /\ \E strategy_values \in vectors, seed \in seeds :
             /\ \/ plan.iteration = 0
                \/ plan.iteration + 1 \in moving
                \/ strategy_values = plan.strategy_values
             /\ plan.iteration = 0 \/ seed = plan.seed
             /\ LET strategies == strategy_values.keys
                    g == get_strategy_probabilities(cfr, strategies)
                    selected == select_strategy(g.probs, seed)
                    c2 == update_regrets(g.cfr, strategy_values, selected)
                    c3 == record_iteration(c2, strategy_values, selected, g.probs,
                                           strategy_values.val[selected])
                IN /\ cfr' = c3
                   /\ plan' = [plan EXCEPT
                                 !.iteration = @ + 1,
                                 !.strategy_values = strategy_values,
                                 !.seed = seed,
                                 !.noise_scale = e.noise_scale,
                                 !.evaluated = [valid |-> TRUE, mem |-> e.mem,
                                                avg_value |-> e.avg_value]]
    /\ UNCHANGED <<current_state, patient_counter, sim, ret, calls>>

\* a round of a call whose values stay, flat or with the last strategy of
\* the catalog above the rest, and whose sampling lands low
AnalyzeRound ==
    Round({Flat, OneHot(StrategyNames[Len(StrategyNames)])}, {"low"}, {})

\* a round of a call whose values may move in the second round and in the
\* last, under either
\* source of sampling
AnalyzeRoundNoisy == Round(ValueVectors, SampleSeeds, {2, NUM_CFR_ITERATIONS})

\* a call that may return one round short
AnalyzeFinishEarly ==
    /\ plan.pc = "rounds"
    /\ plan.iteration >= NUM_CFR_ITERATIONS - 1
    /\ ret' = PlanResult(cfr, Roster, plan.strategy_values)
    /\ plan' = IdlePlan
    /\ UNCHANGED <<mem, current_state, patient_counter, cfr, sim, calls>>

\* after the rounds: the final selection, the commands, the result
AnalyzeFinish ==
    /\ plan.pc = "rounds"
    /\ plan.iteration = NUM_CFR_ITERATIONS
    /\ ret' = PlanResult(cfr, Roster, plan.strategy_values)
    /\ plan' = IdlePlan
    /\ UNCHANGED <<mem, current_state, patient_counter, cfr, sim, calls>>

Next ==
    \/ Spawn
    \/ SpawnUnknown
    \/ StepPatient
    \/ RemovePatient
    \/ Reset
    \/ AppReset
    \/ AnalyzeIdle
    \/ AnalyzeStart
    \/ AnalyzeRound
    \/ AnalyzeFinish

Spec == Init /\ [][Next]_vars

-----------------------------------------------------------------------------
(* PlanSpec: the plan calls on rosters of newly spawned patients, with     *)
(* noise that moves the values within a call                               *)

PlanNext ==
    \/ Spawn
    \/ AppReset
    \/ AnalyzeIdle
    \/ AnalyzeStart
    \/ AnalyzeRoundNoisy
    \/ AnalyzeFinish

PlanSpec == Init /\ [][PlanNext]_vars

-----------------------------------------------------------------------------
(* LongSpec: plan call after plan call on the roster of one patient, the   *)
(* learner kept throughout                                                  *)

\* the learner's counter is capped at five calls
MaxLongIterations == 100

\* the spawn of the first patient
FirstSpawn == patient_counter = 0 /\ Spawn

AnalyzeStartLong == AnalyzeStartUnder(MaxLongIterations)

LongNext ==
    \/ FirstSpawn
    \/ AnalyzeStartLong
    \/ AnalyzeRound
    \/ AnalyzeFinish

LongSpec == Init /\ [][LongNext]_vars

-----------------------------------------------------------------------------
(* LearnerSpec: the CFRRegretMinimizer driven directly, update_regrets and *)
(* record_iteration called with value maps of the caller's choice          *)

\* the number of updates with a value map that is not empty
MaxUpdates == 4

\* the strategy at position i of the catalog valued i
Ramp == DictOf(StrategyNames, LAMBDA s : RInt(CHOOSE i \in 1..Len(StrategyNames) :
                                                 StrategyNames[i] = s))

\* a value map over the first and the last strategy of the catalog only
Pair ==
    DictOf(<<StrategyNames[1], StrategyNames[Len(StrategyNames)]>>,
           LAMBDA s : IF s = StrategyNames[1] THEN RZero ELSE ROne)

\* the value maps update_regrets is called with
UpdateInputs ==
    {EmptyDict, Flat, OneHot(StrategyNames[1]),
     OneHot(StrategyNames[Len(StrategyNames)]), Ramp, Pair}

\* the values of selected_strategy the caller passes with a value map
SelectedInputs(strategy_values) ==
    IF strategy_values.keys = <<>> THEN {""}
    ELSE {strategy_values.keys[1], strategy_values.keys[Len(strategy_values.keys)]}

\* cfr.update_regrets(strategy_values, selected_strategy)
LearnerUpdate ==
    /\ Quiet
    /\ \E strategy_values \in UpdateInputs :
          \E selected \in SelectedInputs(strategy_values) :
             /\ strategy_values.keys # <<>> => cfr.total_iterations < MaxUpdates
             /\ cfr' = update_regrets(cfr, strategy_values, selected)
             /\ ret' = [op |-> "update", strategy_values |-> strategy_values,
                        selected |-> selected]
    /\ UNCHANGED <<mem, current_state, patient_counter, plan, sim, calls>>

\* cfr.record_iteration(strategy_values, selected, probs, reward), with the
\* arguments analyze_and_plan passes: the policy over the map's strategies
\* and the selected strategy's value
LearnerRecord ==
    /\ Quiet
    /\ ret.op = "update"
    /\ ret.strategy_values.keys # <<>>
    /\ Len(cfr.iteration_history) < cfr.total_iterations
    /\ LET g == get_strategy_probabilities(cfr, ret.strategy_values.keys)
       IN /\ cfr' = record_iteration(g.cfr, ret.strategy_values, ret.selected,
                                     g.probs, ret.strategy_values.val[ret.selected])
          /\ ret' = [op |-> "record", strategy_values |-> ret.strategy_values,
                     selected |-> ret.selected]
    /\ UNCHANGED <<mem, current_state, patient_counter, plan, sim, calls>>

LearnerNext ==
    \/ LearnerUpdate
    \/ LearnerRecord

LearnerSpec == Init /\ [][LearnerNext]_vars

-----------------------------------------------------------------------------
(* ConcSpec: two requests for a plan served at once.  app.py takes no lock *)
(* around analyzer.analyze_and_plan(), and the analyzer is one object of   *)
(* the module, so the statements of two calls interleave on analyzer.cfr.  *)
(* A step is one statement of the round loop.                              *)

\* a second call enters only while the other has at most this many rounds
\* left, and the learner's counter may pass MaxIterations by as much
MaxOverlap == 1

Other(c) == CHOOSE d \in Calls : d # c

CallsIdle == \A c \in Calls : calls[c].pc = "idle"

\* a spawn while no request for a plan is being served
CallSpawn == CallsIdle /\ Spawn

\* the entry of a call on a roster that is not empty
CallStart(c) ==
    /\ Quiet
    /\ Roster # <<>>
    /\ calls[c].pc = "idle"
    /\ \/ calls[Other(c)].pc = "idle" /\ cfr.total_iterations = 0
       \/ /\ calls[Other(c)].pc # "idle"
          /\ calls[Other(c)].iteration >= NUM_CFR_ITERATIONS - MaxOverlap
    /\ calls' = [calls EXCEPT ![c] = [IdleCall EXCEPT !.pc = "evaluate"]]
    /\ ret' = [op |-> "plan_start", call |-> c]
    /\ UNCHANGED <<mem, current_state, patient_counter, cfr, plan, sim>>

\* "strategy_values = self.evaluate_all_strategies(...)": the values are
\* flat or put the last strategy of the catalog above the rest, and stay
\* within a call
CallEvaluate(c) ==
    /\ calls[c].pc = "evaluate"
    /\ calls[c].iteration < NUM_CFR_ITERATIONS
    /\ LET f == calls[c]
           known == f.evaluated.valid /\ f.evaluated.mem = mem
           e == IF known
                THEN [mem |-> mem, avg_value |-> f.evaluated.avg_value]
                ELSE evaluate_all_strategies(mem, current_state, NUM_SIMULATIONS, cfr)
       IN /\ mem' = e.mem
          /\ \E strategy_values \in {Flat, OneHot(StrategyNames[Len(StrategyNames)])} :
             /\ f.iteration = 0 \/ strategy_values = f.strategy_values
             /\ calls' = [calls EXCEPT ![c] =
                            [f EXCEPT !.pc = "probs",
                                      !.strategy_values = strategy_values,
                                      !.evaluated = [valid |-> TRUE, mem |-> e.mem,
                                                     avg_value |-> e.avg_value]]]
    /\ UNCHANGED <<current_state, patient_counter, cfr, plan, sim, ret>>

\* "probs = self.cfr.get_strategy_probabilities(strategies)": the policy read
CallProbs(c) ==
    /\ calls[c].pc = "probs"
    /\ LET g == get_strategy_probabilities(cfr, calls[c].strategy_values.keys)
       IN /\ cfr' = g.cfr
          /\ calls' = [calls EXCEPT ![c].pc = "select", ![c].probs = g.probs]
    /\ UNCHANGED <<mem, current_state, patient_counter, plan, sim, ret>>

\* "selected = self.cfr.select_strategy(strategies)", its sampling landing low
CallSelect(c) ==
    /\ calls[c].pc = "select"
    /\ LET g == get_strategy_probabilities(cfr, calls[c].strategy_values.keys)
       IN /\ cfr' = g.cfr
          /\ calls' = [calls EXCEPT ![c].pc = "update",
                                    ![c].selected = select_strategy(g.probs, "low")]
    /\ UNCHANGED <<mem, current_state, patient_counter, plan, sim, ret>>

\* "self.cfr.update_regrets(strategy_values, selected)"
CallUpdate(c) ==
    /\ calls[c].pc = "update"
    /\ cfr.total_iterations < MaxIterations + MaxOverlap
    /\ cfr' = update_regrets(cfr, calls[c].strategy_values, calls[c].selected)
    /\ calls' = [calls EXCEPT ![c].pc = "record"]
    /\ UNCHANGED <<mem, current_state, patient_counter, plan, sim, ret>>

\* "self.cfr.record_iteration(strategy_values, selected, probs, ...)"
CallRecord(c) ==
    /\ calls[c].pc = "record"
    /\ LET f == calls[c]
       IN /\ cfr' = record_iteration(cfr, f.strategy_values, f.selected, f.probs,
                                     f.strategy_values.val[f.selected])
          /\ calls' = [calls EXCEPT ![c].pc = "evaluate", ![c].iteration = @ + 1]
    /\ UNCHANGED <<mem, current_state, patient_counter, plan, sim, ret>>

\* after the rounds: the final selection, the commands, the result
CallFinish(c) ==
    /\ calls[c].pc = "evaluate"
    /\ calls[c].iteration = NUM_CFR_ITERATIONS
    /\ ret' = PlanResult(cfr, Roster, calls[c].strategy_values)
    /\ calls' = [calls EXCEPT ![c] = IdleCall]
    /\ UNCHANGED <<mem, current_state, patient_counter, cfr, plan, sim>>

ConcNext ==
    \/ CallSpawn
    \/ \E c \in Calls : CallStart(c)
    \/ \E c \in Calls : CallEvaluate(c)
    \/ \E c \in Calls : CallProbs(c)
    \/ \E c \in Calls : CallSelect(c)
    \/ \E c \in Calls : CallUpdate(c)
    \/ \E c \in Calls : CallRecord(c)
    \/ \E c \in Calls : CallFinish(c)

ConcSpec == Init /\ [][ConcNext]_vars

-----------------------------------------------------------------------------
(* Properties of the generators: checked under SimSpec *)

RECURSIVE IsSubseq(_, _)
\* a is b with some entries left out
IsSubseq(a, b) ==
    IF a = <<>> THEN TRUE
    ELSE IF b = <<>> THEN FALSE
    ELSE IF Head(a) = Head(b) THEN IsSubseq(Tail(a), Tail(b))
    ELSE IsSubseq(a, Tail(b))

\* the targets of the TREAT commands of a list that carry the id, in order
TreatTargets(commands, id) ==
    LET t == SelectSeq(commands, LAMBDA c : c.action = "TREAT" /\ c.patient_id = id)
    IN [i \in 1..Len(t) |-> t[i].target]

\* C9: the nurse and doctor action sequences that generate_action_sequences
\* returns have the same length, for every roster and every strategy.
C9_EqualLengths ==
    ret.op = "generate" => Len(ret.nurse) = Len(ret.doctor)

\* a generation where the padding shows: the nurse's sequence ends in WAIT
\* where the doctor's ends in a treatment
C9_Witness ==
    /\ ret.op = "generate"
    /\ Len(ret.roster) = 2
    /\ ret.nurse # <<>>
    /\ ret.nurse[Len(ret.nurse)] = Wait
    /\ ret.doctor[Len(ret.doctor)] # Wait

C3_NeverFires ==
    ret.op = "compile" => ret.missing_patients = {}

-----------------------------------------------------------------------------
(* Properties of the patients: checked under SimSpec *)

\* C1: in every state that spawn, step, remove and reset reach, and at every
\* step of every tick of every simulator run, each patient, of the roster
\* or of a simulated copy of it, has 0 <= health <= 100 and
\* 0 <= current_step <= len(pathway), and is_complete holds exactly when
\* current_step = len(pathway).
C1_PatientBounds ==
    \A r \in DOMAIN mem.pat :
       LET p == mem.pat[r]
       IN /\ 0 <= p.health /\ p.health <= 1000
          /\ 0 <= p.current_step /\ p.current_step <= Len(p.pathway)
          /\ is_complete(p) <=> p.current_step = Len(p.pathway)

\* a tick of a run has applied the penalties and left a simulated patient at
\* health 0, while a patient of the roster has been stepped to its end
C1_Witness ==
    /\ sim.pc = "dead"
    /\ \E r \in Range(mem.gs[sim.state].patients) : mem.pat[r].health = 0
    /\ \E r \in Range(mem.gs[current_state].patients) :
          mem.pat[r].current_step = Len(mem.pat[r].pathway)

-----------------------------------------------------------------------------
(* Properties of the learner: checked under PlanSpec *)

\* d gives every strategy of the catalog, in its order, a probability that is
\* not negative, and the probabilities sum to 1
IsDistribution(d) ==
    /\ d.keys = StrategyNames
    /\ \A s \in Strategies : RLeq(RZero, d.val[s])
    /\ SumValues(d) = ROne

\* regret matching, stated on the regrets alone: the positive part of each
\* regret over the sum of the positive parts, or 1/6 each when that sum is 0
RegretMatching(regret_sum) ==
    LET Pos(s) == IF RLess(RZero, Get(regret_sum, s, RZero))
                  THEN regret_sum.val[s] ELSE RZero
        total == RSumSeq([i \in 1..Len(StrategyNames) |-> Pos(StrategyNames[i])], 1)
    IN [s \in Strategies |->
           IF total = RZero THEN <<1, Len(StrategyNames)>>
           ELSE RDiv(Pos(s), total)]

\* C4 as stated: every average policy a plan call reports (get_statistics
\* calls get_average_strategy), also before any round has been recorded, is
\* a probability distribution over the six strategies
C4_AlwaysDistribution ==
    ret.op = "plan" => IsDistribution(ret.learning_stats.average_strategy)

\* C4, amended: get_average_strategy returns a probability distribution over
\* the six strategies (no negative entry, sum 1) in every learner state with
\* at least one recorded round, and the empty map while no round has been
\* recorded; a plan call reports the average policy of the learner it leaves
C4_AveragePolicy ==
    /\ IF cfr.iteration_history # <<>>
       THEN IsDistribution(get_average_strategy(cfr))
       ELSE get_average_strategy(cfr) = EmptyDict
    /\ ret.op = "plan" =>
          IF ret.learning_stats.total_iterations > 0
          THEN IsDistribution(ret.learning_stats.average_strategy)
          ELSE ret.learning_stats.average_strategy = EmptyDict

\* a plan call has returned the average policy of twenty recorded rounds,
\* and it is not the uniform one
C4_Witness ==
    /\ ret.op = "plan"
    /\ ret.strategy # "IDLE"
    /\ Len(cfr.iteration_history) = NUM_CFR_ITERATIONS
    /\ \E s \in Strategies :
          ret.learning_stats.average_strategy.val[s] # <<1, Len(StrategyNames)>>

\* C5: get_strategy_probabilities over the catalog returns, in every learner
\* state, a probability distribution over the six strategies, and so did
\* every call so far: the policy each round recorded, and the policy
\* update_regrets computed last.  Each probability is max(0, regret[s]) over
\* the sum of the positive regrets of the learner's present regrets, or 1/6
\* for every strategy when no regret is positive
C5_CurrentPolicy ==
    /\ IsDistribution(get_strategy_probabilities(cfr, StrategyNames).probs)
    /\ get_strategy_probabilities(cfr, StrategyNames).probs.val
          = RegretMatching(cfr.regret_sum)
    /\ \A i \in 1..Len(cfr.iteration_history) :
          IsDistribution(cfr.iteration_history[i].probabilities)
    /\ Len(cfr.iteration_history) > 0 =>
          cfr.iteration_history[1].probabilities.val = RegretMatching(EmptyDict)
    /\ cfr.prev_probs.keys # <<>> =>
          /\ IsDistribution(cfr.prev_probs)
          /\ cfr.prev_probs.val = RegretMatching(cfr.regret_sum)

\* the learner holds a negative regret and a positive one, and its policy is
\* neither uniform nor on one strategy alone
C5_Witness ==
    /\ \E s \in Strategies : Has(cfr.regret_sum, s) /\ RLess(cfr.regret_sum.val[s], RZero)
    /\ \E s, t \in Strategies :
          /\ s # t
          /\ RLess(RZero, cfr.prev_probs.val[s])
          /\ RLess(cfr.prev_probs.val[s], cfr.prev_probs.val[t])

-----------------------------------------------------------------------------
(* Properties of the final selection: checked under PlanSpec *)

\* the position of a strategy in the catalog
CatalogIndex(s) == CHOOSE i \in 1..Len(StrategyNames) : StrategyNames[i] = s

\* C6 as stated: the strategy a plan call returns has the highest average
\* probability, and no strategy that ties with it has a higher value in the
\* latest round
C6_TieBreakByValue ==
    ret.op = "plan" /\ ret.strategy # "IDLE" =>
        LET avg == ret.learning_stats.average_strategy.val
            value == ret.all_strategy_values.val
        IN \A s \in Strategies :
              /\ RLeq(avg[s], avg[ret.strategy])
              /\ avg[s] = avg[ret.strategy] => RLeq(value[s], value[ret.strategy])

\* C6, amended: the strategy a plan call returns has the highest average
\* probability, and when several strategies tie for it the one that comes
\* first in the catalog is returned, whatever the values of the latest round
C6_FirstHighestAverage ==
    ret.op = "plan" /\ ret.strategy # "IDLE" =>
        LET avg == ret.learning_stats.average_strategy.val
        IN \A s \in Strategies :
              /\ RLeq(avg[s], avg[ret.strategy])
              /\ CatalogIndex(s) < CatalogIndex(ret.strategy)
                    => RLess(avg[s], avg[ret.strategy])

\* a plan call has returned a strategy that ties for the highest average
\* probability with one whose value in the latest round is higher
C6_Witness ==
    /\ ret.op = "plan"
    /\ ret.strategy # "IDLE"
    /\ \E s \in Strategies :
          /\ ret.learning_stats.average_strategy.val[s]
                = ret.learning_stats.average_strategy.val[ret.strategy]
          /\ RLess(ret.all_strategy_values.val[ret.strategy],
                   ret.all_strategy_values.val[s])

-----------------------------------------------------------------------------
(* Properties of the service: checked under Spec *)

\* the scenario as its caller sees it: the live state's own fields, with the
\* roster as references in its order, and the patients the roster holds
ScenarioOf(M, g) == IF g = NoneRef THEN <<>> ELSE <<M.gs[g], PatientsOf(M, g)>>

\* C7 as stated: a reset clears the Scenario State and leaves the learner as
\* it is, and the learner is cleared by a reset of its own, one that leaves
\* the Scenario State as it is: no reset changes both
C7_SeparateResets ==
    [][ret'.op \in {"reset", "app_reset"} =>
           \/ cfr' = cfr
           \/ /\ current_state' = current_state
              /\ patient_counter' = patient_counter
              /\ mem' = mem]_vars

\* C7, amended: DynamicRegretAnalyzer.reset clears the Scenario State and
\* leaves the learner unchanged; the learner changes only in a round of a plan
\* call, which extends its histories, and in POST /reset, which replaces the
\* whole analyzer: it clears the learner together with the Scenario State
C7_LearnerSurvives ==
    [][/\ ret'.op = "reset" =>
             cfr' = cfr /\ current_state' = NoneRef /\ patient_counter' = 0
       /\ ret'.op = "app_reset" =>
             cfr' = NewCfr /\ current_state' = NoneRef /\ patient_counter' = 0
       /\ cfr' # cfr =>
             \/ ret'.op = "app_reset"
             \/ /\ plan.pc = "rounds"
                /\ cfr'.total_iterations = cfr.total_iterations + 1
                /\ SubSeq(cfr'.iteration_history, 1, Len(cfr.iteration_history))
                     = cfr.iteration_history
                /\ Len(cfr'.iteration_history) = Len(cfr.iteration_history) + 1]_vars

\* reset has returned: the scenario is gone and the learner still holds the
\* rounds of a plan call
C7_Witness ==
    /\ ret.op = "reset"
    /\ current_state = NoneRef
    /\ cfr.total_iterations = NUM_CFR_ITERATIONS
    /\ cfr.regret_sum.keys = StrategyNames

\* C8: every step of a plan call (the early return, the entry, each round
\* with its simulator runs, the final selection and compilation) leaves the
\* caller's scenario as it was: the same roster in the same order, every
\* patient's fields, the agents' positions and busy-until times, the clock
\* and the running totals
C8_ScenarioUnchanged ==
    [][plan.pc = "rounds" \/ plan'.pc = "rounds" \/ ret'.op = "plan" =>
           /\ current_state' = current_state
           /\ patient_counter' = patient_counter
           /\ ScenarioOf(mem', current_state') = ScenarioOf(mem, current_state)]_vars

\* a plan call on a roster of two patients or more, one of them past its
\* first step, has evaluated the strategies by simulation, run its twenty
\* rounds and returned commands
C8_Witness ==
    /\ ret.op = "plan"
    /\ ret.strategy # "IDLE"
    /\ Len(Roster) >= 2
    /\ \E i \in 1..Len(Roster) : Roster[i].current_step > 0
    /\ ret.nurse_commands # <<>>
    /\ cfr.total_iterations = NUM_CFR_ITERATIONS

\* C10: a plan call returns at once exactly when there is no scenario or the
\* roster is empty; it then returns the IDLE assignment with empty command
\* lists and expected value 0, reports the learner's statistics and leaves
\* the learner (regrets, sums, counter, cumulative regret, histories) as it
\* was
C10_IdlePlan ==
    [][/\ ret'.op = "plan_start" => Roster # <<>>
       /\ ret'.op = "plan" /\ plan.pc = "idle" =>
             /\ Roster = <<>>
             /\ ret'.strategy = "IDLE"
             /\ ret'.nurse_commands = <<>>
             /\ ret'.doctor_commands = <<>>
             /\ ret'.expected_reward = RZero
             /\ ret'.learning_stats = get_statistics(cfr)
             /\ cfr' = cfr]_vars

\* a plan call has returned IDLE on a scenario whose roster has been emptied,
\* with a learner that holds the rounds of an earlier call
C10_Witness ==
    /\ ret.op = "plan"
    /\ ret.strategy = "IDLE"
    /\ current_state # NoneRef
    /\ Roster = <<>>
    /\ cfr.total_iterations = NUM_CFR_ITERATIONS
    /\ ret.learning_stats.total_iterations = NUM_CFR_ITERATIONS

-----------------------------------------------------------------------------
(* Properties of the returned plan: checked under Spec *)

\* the list holds a TREAT command that carries the id
HasTreat(commands, id) ==
    \E i \in 1..Len(commands) :
       commands[i].action = "TREAT" /\ commands[i].patient_id = id

\* C11: a plan call that returns a strategy returns, for every Critical
\* patient of the roster, a doctor command list with a TREAT command for
\* that patient; and the compiler would have given the doctor one under each
\* of the six strategies
C11_DoctorTreatsCritical ==
    ret.op = "plan" /\ ret.strategy # "IDLE" =>
        \A i \in 1..Len(Roster) :
           Roster[i].ptype = "Critical" =>
              /\ HasTreat(ret.doctor_commands, Roster[i].id)
              /\ \A s \in Strategies :
                    HasTreat(generate_unity_commands(Roster, s).doctor, Roster[i].id)

\* a plan call has returned the strategy that gives triage to the nurse, for
\* a roster of two with a Critical patient second, past its first step
C11_Witness ==
    /\ ret.op = "plan"
    /\ ret.strategy = "NURSE_TRIAGE_DOCTOR_TREAT"
    /\ Len(Roster) = 2
    /\ Roster[2].ptype = "Critical"
    /\ Roster[2].current_step > 0
    /\ HasTreat(ret.doctor_commands, Roster[2].id)


-----------------------------------------------------------------------------
(* C12 *)

\* the call has read the policy of its first round and has not yet recorded
\* its last round
InRounds(f) ==
    \/ f.pc \in {"select", "update", "record"}
    \/ /\ f.pc \in {"evaluate", "probs"}
       /\ 0 < f.iteration
       /\ f.iteration < NUM_CFR_ITERATIONS

\* C12: a planning call holds exclusive access to the learner for its whole
\* duration: when two planning calls run against the same learner, no
\* update_regrets and no record_iteration of one call is executed between
\* the first and the last round of the other, in particular none between a
\* round's policy read and that round's record.
C12_ExclusiveAccess ==
    [][\A c \in Calls :
          calls[c].pc \in {"update", "record"} /\ calls'[c].pc # calls[c].pc
             => ~InRounds(calls[Other(c)])]_vars


-----------------------------------------------------------------------------
(* C13 *)

\* the list holds no escort, treat or leave command
NoWork(commands) ==
    \A i \in 1..Len(commands) :
       commands[i].action \notin {"ESCORT", "TREAT", "LEAVE_PATIENT"}

\* C13: for every roster that is not empty and every strategy, both command
\* lists the plan compiler returns are non-empty, and the list of an agent
\* with no escort, treat or leave command is exactly one no-op MOVE.
C13_BothListsNonEmpty ==
    ret.op = "compile" /\ ret.roster # <<>> =>
        \A commands \in {ret.nurse, ret.doctor} :
           /\ commands # <<>>
           /\ NoWork(commands) =>
                 /\ Len(commands) = 1
                 /\ commands[1].action = "MOVE"
                 /\ commands[1].patient_id = -1
                 /\ commands[1].duration = 0

C13_Witness ==
    /\ ret.op = "compile"
    /\ Len(ret.roster) = 2
    /\ NoWork(ret.doctor)
    /\ Len(ret.doctor) = 1
    /\ ~NoWork(ret.nurse)


-----------------------------------------------------------------------------
(* C14 *)

-----------------------------------------------------------------------------
(* C15 *)

\* no scenario is live, or no patient of the roster has the id
UnknownId(id) == \A i \in 1..Len(Roster) : Roster[i].id # id

\* C15: step and remove called with a patient id that is not in the roster,
\* or while no scenario exists, raise no error, return false (step) or
\* nothing (remove), and leave the roster, every patient's step and health
\* and the id counter as they were.
C15_UnknownIdNoOp ==
    [][/\ Quiet
       /\ sim'.pc = "idle"
       /\ ret'.op \in {"step", "remove"}
       /\ UnknownId(ret'.patient_id)
       => /\ ScenarioOf(mem', current_state') = ScenarioOf(mem, current_state)
          /\ patient_counter' = patient_counter
          /\ "error" \notin DOMAIN ret'
          /\ ret'.op = "step" => ret'.result = FALSE
          /\ ret'.op = "remove" => DOMAIN ret' = {"op", "patient_id"}]_vars

C15_Witness ==
    /\ ret.op = "step"
    /\ ret.result = FALSE
    /\ Len(Roster) = 1
    /\ Roster[1].current_step > 0
    /\ UnknownId(ret.patient_id)


-----------------------------------------------------------------------------
(* C16 *)

\* C16: spawn called with a severity tier outside the three of the game is
\* never fatal: no spawn raises, and a spawn that adds no patient, the tier
\* being rejected, leaves the roster and the patient id counter as they were.
C16_UnknownTierNotFatal ==
    [][Quiet /\ sim'.pc = "idle" /\ ret'.op = "spawn" =>
           /\ "error" \notin DOMAIN ret'
           /\ ScenarioOf(mem', current_state') = ScenarioOf(mem, current_state)
                 => patient_counter' = patient_counter]_vars


-----------------------------------------------------------------------------
(* C18 *)

\* C18: a plan call on a roster that is not empty performs exactly twenty
\* rounds, each one sample, one regret update and one record, so that the
\* learner's iteration counter at the return is its value at the entry plus
\* twenty; and no spawn, step, remove, scenario reset or plan call ever
\* lowers the iteration counter.
C18_TwentyRounds ==
    [][/\ plan.pc = "idle" /\ plan'.pc = "rounds" =>
             /\ plan'.iteration = 0
             /\ cfr' = cfr
       /\ plan.pc = "rounds" /\ plan'.pc = "rounds" =>
             /\ plan'.iteration = plan.iteration + 1
             /\ cfr'.total_iterations = cfr.total_iterations + 1
             /\ Len(cfr'.regret_history) = Len(cfr.regret_history) + 1
             /\ Len(cfr'.iteration_history) = Len(cfr.iteration_history) + 1
             /\ LET round == cfr'.iteration_history[Len(cfr'.iteration_history)]
                IN /\ round.selected_strategy \in Strategies
                   /\ round.iteration = cfr'.total_iterations
       /\ plan.pc = "rounds" /\ plan'.pc = "idle" =>
             /\ plan.iteration = NUM_CFR_ITERATIONS
             /\ cfr' = cfr
             /\ ret'.op = "plan"
             /\ ret'.learning_stats.total_iterations
                   = (cfr.total_iterations - plan.iteration) + NUM_CFR_ITERATIONS
       /\ ret'.op # "app_reset" => cfr'.total_iterations >= cfr.total_iterations]_vars

C18_Witness ==
    /\ ret.op = "plan"
    /\ ret.strategy # "IDLE"
    /\ plan.pc = "idle"
    /\ cfr.total_iterations = NUM_CFR_ITERATIONS
    /\ Len(cfr.iteration_history) = NUM_CFR_ITERATIONS
    /\ Len(Roster) = 2


-----------------------------------------------------------------------------
(* C19 *)

\* C19: the noise scale of a round's evaluation is max(0.1, 10/(n+1)) with n
\* the learner's persistent iteration counter at that moment, not the
\* round's index within the call: the first round of a second call uses
\* 10/21, the scale never increases from one round to the next, calls
\* included, and it is 0.1 once n >= 99.
C19_NoiseScale ==
    [][plan.pc = "rounds" /\ plan'.pc = "rounds" =>
           LET n == cfr.total_iterations
           IN /\ plan'.noise_scale = IF n >= 99 THEN <<1, 10>> ELSE Rat(10, n + 1)
              /\ n = NUM_CFR_ITERATIONS => plan'.noise_scale = <<10, 21>>
              /\ n > 0 => RLeq(plan'.noise_scale,
                               IF n >= 100 THEN <<1, 10>> ELSE Rat(10, n))
              /\ plan.iteration > 0 => RLeq(plan'.noise_scale, plan.noise_scale)]_vars

C19_Witness ==
    /\ plan.pc = "rounds"
    /\ plan.iteration = NUM_CFR_ITERATIONS
    /\ cfr.total_iterations = 5 * NUM_CFR_ITERATIONS
    /\ plan.noise_scale = <<1, 10>>


-----------------------------------------------------------------------------
(* C20 *)

\* What a step of the simulator that executes `action` for an agent did,
\* `busy` telling whether the agent was sent to a room: every patient of the
\* simulated roster the step changed has the id the action names; the agent
\* is sent nowhere when no patient has that id; and it is sent to treat when
\* a patient with that id has a room left
TreatsNamedPatient(action, busy) ==
    action[1] = "TREAT_PATIENT" =>
        LET k == ParseInt(action[Len(action)])
            refs == mem.gs[sim.state].patients
            named == {i \in 1..Len(refs) : mem.pat[refs[i]].id = k}
        IN /\ \A i \in 1..Len(refs) :
                 mem'.pat[refs[i]] # mem.pat[refs[i]] => i \in named
           /\ named = {} => ~busy
           /\ (\E i \in named : next_room(mem.pat[refs[i]]) # "None") => busy

\* C20: every TREAT_PATIENT_k action the catalog generates for the patient
\* with id k is applied by the simulator to the patient whose id is k, or to
\* no patient when that patient has left the roster, at every tick, also
\* after other patients were removed from the simulated roster and for
\* rosters whose ids do not start at 1.
C20_TreatById ==
    [][/\ sim.pc = "nurse" /\ sim'.nurse_action_idx = sim.nurse_action_idx + 1 =>
             TreatsNamedPatient(sim.nurse_actions[sim.nurse_action_idx + 1],
                                mem'.gs[sim.state].nurse_busy_until
                                   # mem.gs[sim.state].nurse_busy_until)
       /\ sim.pc = "doctor" /\ sim'.doctor_action_idx = sim.doctor_action_idx + 1 =>
             TreatsNamedPatient(sim.doctor_actions[sim.doctor_action_idx + 1],
                                mem'.gs[sim.state].doctor_busy_until
                                   # mem.gs[sim.state].doctor_busy_until)]_vars


-----------------------------------------------------------------------------
(* C21 *)

\* The doctor's step executes a treat action on the patient at reference r
\* while the nurse is attached to that patient: the nurse's latest action is
\* the same treat action, the nurse is still busy with it, and the nurse
\* stands in the room of the patient's latest treatment
TreatsAlongsideNurse(r) ==
    LET s == mem.gs[sim.state]
        p == mem.pat[r]
        action == sim.doctor_actions[sim.doctor_action_idx + 1]
    IN /\ action[1] = "TREAT_PATIENT"
       /\ sim.nurse_action_idx >= 1
       /\ sim.nurse_actions[sim.nurse_action_idx] = action
       /\ s.nurse_busy_until > s.current_time
       /\ p.current_step >= 1
       /\ s.nurse_pos = p.pathway[p.current_step]
       /\ mem'.pat[r].current_step = p.current_step + 1

\* C21: whenever an agent's treat action targets a patient that the other
\* agent is treating, as when both agents treat the same patient in the same
\* tick under COOPERATIVE_ALL, the simulator counts one cooperation event and
\* heals with the base power multiplied by 1.2.
C21_CooperativeBonus ==
    [][sim.pc = "doctor" /\ sim'.doctor_action_idx = sim.doctor_action_idx + 1 =>
          \A r \in Range(mem.gs[sim.state].patients) :
             TreatsAlongsideNurse(r) =>
                LET p == mem.pat[r]
                    room == next_room(p)
                IN /\ sim'.metrics.cooperation_events
                         = sim.metrics.cooperation_events + 1
                   /\ mem'.pat[r].health
                         = Min(1000, p.health
                                 + Healing("doctor", room,
                                           ROOM_TREATMENT_TIME[room], TRUE))]_vars


-----------------------------------------------------------------------------
(* C22 *)

\* the ids of the roster's patients of the given types
IdsOfTypes(roster, types) ==
    {roster[i].id : i \in {j \in 1..Len(roster) : roster[j].ptype \in types}}

\* the patient ids the commands of a list carry
IdsCarried(commands) == {commands[i].patient_id : i \in 1..Len(commands)}

\* C22: under DOCTOR_CRITICAL_NURSE_OTHERS, for a roster with a Critical
\* patient, the nurse's compiled list carries no Critical patient's id and the
\* doctor's list carries no id of a patient that is not Critical.
C22_SplitBySeverity ==
    /\ ret.op = "compile"
    /\ ret.strategy = "DOCTOR_CRITICAL_NURSE_OTHERS"
    /\ IdsOfTypes(ret.roster, {"Critical"}) # {}
    => /\ IdsCarried(ret.nurse) \cap IdsOfTypes(ret.roster, {"Critical"}) = {}
       /\ IdsCarried(ret.doctor)
             \cap IdsOfTypes(ret.roster, PatientTypes \ {"Critical"}) = {}


-----------------------------------------------------------------------------
(* C23 *)

\* regret matching over the strategies ks, stated on the regrets alone
PolicyOver(regret_sum, ks) ==
    LET Pos(s) == IF RLess(RZero, Get(regret_sum, s, RZero))
                  THEN regret_sum.val[s] ELSE RZero
        total == RSumSeq([i \in 1..Len(ks) |-> Pos(ks[i])], 1)
    IN [s \in Range(ks) |->
           IF total = RZero THEN <<1, Len(ks)>> ELSE RDiv(Pos(s), total)]

\* the sum over the map's strategies of policy[s] * values[s]
ExpectedValue(policy, values) ==
    RSumSeq([i \in 1..Len(values.keys) |->
               RMul(policy[values.keys[i]], values.val[values.keys[i]])], 1)

-----------------------------------------------------------------------------
(* C24 *)

\* the simulated roster, as references, before and after a step
SimRefs == mem.gs[sim.state].patients
SimRefsAfter == mem'.gs[sim.state].patients

\* the order of the five steps of a tick, the loop test before the first
TickOrder ==
    {<<"loop", "dead">>, <<"dead", "nurse">>, <<"nurse", "doctor">>,
     <<"doctor", "completed">>, <<"completed", "loop">>}

\* C24: the steps of a tick run in the order waiting penalties, death
\* removal, nurse action, doctor action, completed removal.  The death
\* removal takes every patient whose health is 0 out of the roster and
\* charges 50 for each, to the state and to the metric; so all patients are
\* alive when an agent acts and when completions are counted, and no step of
\* a run puts a patient back into the roster.
C24_DeathBeforeAgents ==
    [][sim.pc \notin {"idle"} /\ sim'.pc # "idle" =>
          /\ sim'.pc # sim.pc => <<sim.pc, sim'.pc>> \in TickOrder
          /\ Range(SimRefsAfter) \subseteq Range(SimRefs)
          /\ sim.pc = "dead" =>
                LET Alive(r) == mem.pat[r].health > 0
                    dead == {i \in 1..Len(SimRefs) : ~Alive(SimRefs[i])}
                IN /\ SimRefsAfter = SelectSeq(SimRefs, Alive)
                   /\ mem'.gs[sim.state].total_penalty
                         = mem.gs[sim.state].total_penalty
                           - DEATH_PENALTY * Cardinality(dead)
                   /\ sim'.metrics.total_penalty
                         = sim.metrics.total_penalty
                           + DEATH_PENALTY * Cardinality(dead)
                   /\ sim'.metrics.patients_completed = sim.metrics.patients_completed
                   /\ mem'.pat = mem.pat
          /\ sim.pc \in {"nurse", "doctor", "completed"} =>
                \A i \in 1..Len(SimRefs) : mem.pat[SimRefs[i]].health > 0
          /\ sim.pc \in {"nurse", "doctor"} => SimRefsAfter = SimRefs
          /\ sim.pc = "completed" =>
                sim'.metrics.patients_completed - sim.metrics.patients_completed
                   = Len(SimRefs) - Len(SimRefsAfter)]_vars

\* a death removal has just taken a patient out of the roster
C24_Witness ==
    /\ sim.pc = "nurse"
    /\ sim.metrics.patients_completed = 0
    /\ Len(mem.gs[sim.state].patients) < Len(mem.gs[sim.initial_state].patients)
    /\ mem.gs[sim.state].patients # <<>>
    /\ sim.metrics.total_penalty >= DEATH_PENALTY


-----------------------------------------------------------------------------
(* C25 *)

\* the clock of the simulated state, before and after a step
SimClock == mem.gs[sim.state].current_time
SimClockAfter == mem'.gs[sim.state].current_time

\* C25: every run of the simulator returns.  The clock advances by one time
\* step at the end of each tick and at no other step; at the loop test the
\* run returns exactly when the clock has reached the horizon or the roster
\* is empty, and what it returns has the clock at the horizon or beyond, or
\* an empty roster; an agent takes at most one action of its sequence per
\* tick, in its own step, and none while the clock is below its busy-until
\* time.
C25_RunTerminates ==
    /\ [][/\ sim.pc # "idle" /\ sim'.pc # "idle" =>
                /\ SimClockAfter = IF sim.pc = "completed" THEN SimClock + TIME_STEP
                                   ELSE SimClock
                /\ sim'.nurse_action_idx
                      \in {sim.nurse_action_idx} \cup
                          (IF sim.pc = "nurse" THEN {sim.nurse_action_idx + 1} ELSE {})
                /\ sim'.doctor_action_idx
                      \in {sim.doctor_action_idx} \cup
                          (IF sim.pc = "doctor" THEN {sim.doctor_action_idx + 1} ELSE {})
                /\ SimClock < mem.gs[sim.state].nurse_busy_until =>
                      sim'.nurse_action_idx = sim.nurse_action_idx
                /\ SimClock < mem.gs[sim.state].doctor_busy_until =>
                      sim'.doctor_action_idx = sim.doctor_action_idx
          /\ sim.pc = "loop" /\ sim'.pc # sim.pc =>
                (sim'.pc = "idle"
                    <=> (SimClock >= SIMULATION_TIME \/ SimRefs = <<>>))
          /\ sim.pc # "idle" /\ sim'.pc = "idle" =>
                /\ sim.pc = "loop"
                /\ ret'.op = "simulate"
                /\ ret'.state.current_time >= SIMULATION_TIME \/ ret'.patients = <<>>
                /\ ret'.state.current_time = SimClock]_vars
    /\ (sim.pc # "idle" ~> sim.pc = "idle")

\* a run has returned after at least two ticks, both agents having taken
\* actions, with an empty roster
C25_Witness ==
    /\ ret.op = "simulate"
    /\ sim.pc = "idle"
    /\ ret.patients = <<>>
    /\ ret.state.current_time >= 2 * TIME_STEP
    /\ ret.state.current_time < SIMULATION_TIME
    /\ ret.state.nurse_busy_until > 0
    /\ ret.state.doctor_busy_until > 0


-----------------------------------------------------------------------------
(* C26 *)

RECURSIVE WaitingRates(_, _)
\* the sum of the waiting rates of the patients of a roster, in tenths a minute
WaitingRates(pat, refs) ==
    IF refs = <<>> THEN 0
    ELSE WAITING_PENALTY[pat[Head(refs)].ptype] + WaitingRates(pat, Tail(refs))

-----------------------------------------------------------------------------
(* C27 *)

\* the learner without the two fields of its iteration-history entries that
\* hold the sample: the selected name and the reward
Blind(C) ==
    [C EXCEPT !.iteration_history =
        [i \in 1..Len(@) |-> [@[i] EXCEPT !.selected_strategy = "",
                                          !.reward = RZero]]]

-----------------------------------------------------------------------------
(* C28 *)

\* the state a run was started on, and its roster
SimInitial == mem.gs[sim.initial_state]

\* the patient objects of a run: the copies its clone made, in the roster or
\* taken out of it
SimObjects == DOMAIN mem.pat \ Range(SimInitial.patients)

\* the patients a run has taken out of its roster
SimGone == SimObjects \ Range(SimRefs)

\* C28: at every tick boundary of a run that started with no complete
\* patient, the roster holds only patients of the run's clone, every patient
\* taken out has health 0 or a finished pathway and not both, the size of the
\* initial roster is the number remaining plus the number completed plus the
\* number dead, the metric patients_completed is the number completed and is
\* the growth of the state's completed count, and the metric total_penalty is
\* the fall of the state's penalty total.
C28_RosterConserved ==
    (/\ sim.pc = "loop"
     /\ \A i \in 1..Len(SimInitial.patients) :
           ~is_complete(mem.pat[SimInitial.patients[i]]))
    => \E dead \in {{r \in SimGone : mem.pat[r].health = 0}} :
       \E completed \in {{r \in SimGone : is_complete(mem.pat[r])}} :
          /\ Range(SimRefs) \subseteq SimObjects
          /\ Cardinality(Range(SimRefs)) = Len(SimRefs)
          /\ Cardinality(SimObjects) = Len(SimInitial.patients)
          /\ SimGone = dead \cup completed
          /\ dead \cap completed = {}
          /\ Len(SimInitial.patients)
                = Len(SimRefs) + Cardinality(completed) + Cardinality(dead)
          /\ sim.metrics.patients_completed = Cardinality(completed)
          /\ sim.metrics.patients_completed
                = mem.gs[sim.state].completed_patients - SimInitial.completed_patients
          /\ sim.metrics.total_penalty
                = SimInitial.total_penalty - mem.gs[sim.state].total_penalty

\* a tick boundary of a run of two patients of which one has died, one has
\* completed its pathway
C28_Witness ==
    /\ sim.pc = "loop"
    /\ Len(SimInitial.patients) = 2
    /\ \A i \in 1..Len(SimInitial.patients) :
          ~is_complete(mem.pat[SimInitial.patients[i]])
    /\ \E r \in SimGone : mem.pat[r].health = 0
    /\ \E r \in SimGone : is_complete(mem.pat[r])


-----------------------------------------------------------------------------
(* C29 *)

\* a series of numbers that never falls
NonDecreasing(xs) == \A i \in 1..(Len(xs) - 1) : RLeq(xs[i], xs[i + 1])

-----------------------------------------------------------------------------
(* C30 *)

\* the ids of the roster, in its order
RosterIds == [i \in 1..Len(Roster) |-> Roster[i].id]

\* the ids left of a list of ids when those outside a set are dropped
IdsWithin(ids, S) == LET In(x) == x \in S IN SelectSeq(ids, In)

\* C30: the ids of the roster grow strictly along the roster, which is the
\* order of the spawns, and lie between 1 and the id counter; so they are
\* pairwise distinct.  The counter falls only in a reset, which empties the
\* roster.  In any other operation the patients that stay keep their order
\* and every id that enters the roster is above the counter of before, hence
\* above every id given out since the last reset: an id that has left the
\* roster does not come back.
C30_IdsFresh ==
    /\ [](/\ \A i \in 1..Len(RosterIds) : RosterIds[i] \in 1..patient_counter
          /\ \A i \in 1..(Len(RosterIds) - 1) : RosterIds[i] < RosterIds[i + 1])
    /\ [][\E before \in {RosterIds} : \E after \in {RosterIds'} :
             IF patient_counter' < patient_counter
             THEN ret'.op \in {"reset", "app_reset"} /\ after = <<>>
             ELSE /\ IdsWithin(after, Range(before)) = IdsWithin(before, Range(after))
                  /\ \A x \in Range(after) \ Range(before) : x > patient_counter
                  /\ ret'.op = "remove" =>
                        after = IdsWithin(before, Range(before) \ {ret'.patient_id})
                  /\ (ret'.op = "spawn" /\ after # before) =>
                        after = Append(before, patient_counter + 1)
                  /\ ret'.op \notin {"remove", "spawn"} => after = before]_vars

\* a spawn has just put the second id into a roster that the first id has
\* left
C30_Witness ==
    /\ ret.op = "spawn"
    /\ patient_counter = 2
    /\ RosterIds = <<2>>

====
